---- MODULE Spec2Model ----
(***************************************************************************)
(* Scoring and liquidity-simulation engine of the migration readiness      *)
(* analyzer (lib/scoring.ts, lib/liquidity-sim.ts, api/analyze/route.ts).  *)
(*                                                                         *)
(* The engine computes with JavaScript numbers, i.e. IEEE-754 binary64.    *)
(* The first part of this module is that arithmetic: a double is a record  *)
(* [s, m, e] of value s * m * 2^e with a 53-bit mantissa m, and every      *)
(* operation rounds its exact result to nearest, ties to even.  Mantissas  *)
(* are natural numbers held as little-endian sequences of 14-bit limbs, so *)
(* that no intermediate value leaves the 32-bit integers of TLC.           *)
(* Subnormals, infinities and NaN are outside the ranges modelled.         *)
(***************************************************************************)
EXTENDS Integers, Sequences, FiniteSets, TLC

\* ------------------------------------------------------------------------
\* Natural numbers of arbitrary size (limbs of 14 bits, least significant
\* first, no leading zero limb; the empty sequence is 0).
\* ------------------------------------------------------------------------
Min2(a, b) == IF a < b THEN a ELSE b
Max2(a, b) == IF a > b THEN a ELSE b

LimbBits == 7 + 7
Base == 2^LimbBits
MantBits == 50 + 3

Limb(x, i) == IF 1 <= i /\ i <= Len(x) THEN x[i] ELSE 0

RECURSIVE BNorm(_)
BNorm(x) ==
  IF Len(x) = 0 THEN x
  ELSE IF x[Len(x)] = 0 THEN BNorm(SubSeq(x, 1, Len(x) - 1)) ELSE x

RECURSIVE BFromInt(_)
BFromInt(n) == IF n = 0 THEN <<>> ELSE <<n % Base>> \o BFromInt(n \div Base)

RECURSIVE BToInt(_)
BToInt(x) == IF Len(x) = 0 THEN 0 ELSE x[1] + Base * BToInt(Tail(x))

\* x + y.  The carry into limb i is found by looking back: some lower limb
\* overflows and every limb between passes a carry on.
BAdd(x, y) ==
  LET S(i) == Limb(x, i) + Limb(y, i)
      Carry(i) ==
        \E j \in 1..(i - 1) :
          S(j) >= Base /\ \A l \in (j + 1)..(i - 1) : S(l) = Base - 1
      Sum(n) ==
        [i \in 1..n |-> (S(i) + (IF Carry(i) THEN 1 ELSE 0)) % Base]
          \o (IF Carry(n + 1) THEN <<1>> ELSE <<>>)
  IN  BNorm(Sum(Max2(Len(x), Len(y))))

\* x - y for x >= y, the borrow found the same way
BSub(x, y) ==
  LET D(i) == Limb(x, i) - Limb(y, i)
      Borrow(i) ==
        \E j \in 1..(i - 1) :
          D(j) < 0 /\ \A l \in (j + 1)..(i - 1) : D(l) = 0
  IN  BNorm(<<>> \o [i \in 1..Len(x) |->
                       (D(i) - (IF Borrow(i) THEN 1 ELSE 0)) % Base])

RECURSIVE BCmpFrom(_, _, _)
BCmpFrom(x, y, i) ==
  IF i = 0 THEN 0
  ELSE IF x[i] < y[i] THEN -1
  ELSE IF x[i] > y[i] THEN 1
  ELSE BCmpFrom(x, y, i - 1)

\* -1, 0 or 1 as x <, =, > y
BCmp(x, y) ==
  IF Len(x) < Len(y) THEN -1
  ELSE IF Len(x) > Len(y) THEN 1
  ELSE BCmpFrom(x, y, Len(x))

\* x * k for 0 <= k < Base: the low halves of the limb products plus their
\* high halves one limb up
BMulSmall(x, k) ==
  BAdd(<<>> \o [i \in 1..Len(x) |-> (x[i] * k) % Base],
       <<0>> \o [i \in 1..Len(x) |-> (x[i] * k) \div Base])

BShlLimbs(x, n) == IF Len(x) = 0 THEN x ELSE [i \in 1..n |-> 0] \o x

\* the sum over i in lo..hi of the low (part = 0) or high (part = 1) half of
\* x[i] * y[k + 1 - i]
RECURSIVE ColSum(_, _, _, _, _, _)
ColSum(x, y, k, part, lo, hi) ==
  IF lo > hi THEN 0
  ELSE (IF part = 0 THEN (x[lo] * y[k + 1 - lo]) % Base
        ELSE (x[lo] * y[k + 1 - lo]) \div Base)
       + ColSum(x, y, k, part, lo + 1, hi)

\* x * y by columns: column k collects the products x[i] * y[j], i + j = k + 1
BMul(x, y) ==
  LET Col(k, part) ==
        ColSum(x, y, k, part, Max2(1, k + 1 - Len(y)), Min2(k, Len(x)))
      Carried(v) ==
        BAdd(<<>> \o [k \in 1..Len(v) |-> v[k] % Base],
             <<0>> \o [k \in 1..Len(v) |-> v[k] \div Base])
  IN  IF Len(y) = 0 \/ Len(x) = 0 THEN <<>>
      ELSE Carried(<<>> \o [k \in 1..(Len(x) + Len(y)) |->
                              Col(k, 0) + Col(k - 1, 1)])

\* x * 2^n
BShl(x, n) ==
  LET Bits(r) ==
        BNorm([i \in 1..(Len(x) + 1) |->
                 ((Limb(x, i) * 2^r) % Base) + (Limb(x, i - 1) \div 2^(LimbBits - r))])
  IN  BShlLimbs(Bits(n % LimbBits), n \div LimbBits)

\* 2^n
BPow2(n) == [i \in 1..(n \div LimbBits) |-> 0] \o <<2^(n % LimbBits)>>

\* floor(x / 2^n)
BShr(x, n) ==
  LET Bits(y, r) ==
        BNorm([i \in 1..Len(y) |->
                 (y[i] \div 2^r) + (Limb(y, i + 1) % 2^r) * 2^(LimbBits - r)])
  IN  Bits(IF n \div LimbBits >= Len(x) THEN <<>>
           ELSE SubSeq(x, n \div LimbBits + 1, Len(x)),
           n % LimbBits)

\* x mod 2^n
BLow(x, n) ==
  LET drop == n \div LimbBits
      r    == n % LimbBits
  IN  IF drop >= Len(x) THEN x
      ELSE BNorm(SubSeq(x, 1, drop) \o <<x[drop + 1] % 2^r>>)

RECURSIVE IntBitLen(_)
IntBitLen(n) == IF n = 0 THEN 0 ELSE 1 + IntBitLen(n \div 2)

BBitLen(x) ==
  IF Len(x) = 0 THEN 0 ELSE LimbBits * (Len(x) - 1) + IntBitLen(x[Len(x)])

BIsOdd(x) == Len(x) > 0 /\ x[1] % 2 = 1
BOne == <<1>>

RECURSIVE BPow(_, _)
BPow(b, n) ==
  IF n = 0 THEN BOne
  ELSE LET Square(h) == BMul(h, h)
       IN  IF n % 2 = 1 THEN BMul(Square(BPow(b, n \div 2)), b)
           ELSE Square(BPow(b, n \div 2))

\* ------------------------------------------------------------------------
\* IEEE-754 binary64 values and operations (round to nearest, ties to even)
\* ------------------------------------------------------------------------
FZero == [s |-> 1, m |-> <<>>, e |-> 0]
FIsZero(a) == Len(a.m) = 0

\* The double nearest to s * n * 2^e (+ a little more when sticky).
FRound(s, n, e, sticky) ==
  LET Pack(q2, k) ==
        IF BBitLen(q2) > MantBits
          THEN [s |-> s, m |-> BShr(q2, 1), e |-> e + k + 1]
          ELSE [s |-> s, m |-> q2, e |-> e + k]
      \* q: the bits kept; c: the bits dropped against one half
      Nearest(q, c, k) ==
        Pack(IF c > 0 \/ (c = 0 /\ (sticky \/ BIsOdd(q)))
               THEN BAdd(q, BOne) ELSE q, k)
      Cut(len) ==
        IF len = 0 THEN FZero
        ELSE IF len <= MantBits
          THEN [s |-> s, m |-> BShl(n, MantBits - len), e |-> e - (MantBits - len)]
        ELSE Nearest(BShr(n, len - MantBits),
                     BCmp(BLow(n, len - MantBits), BPow2(len - MantBits - 1)),
                     len - MantBits)
  IN  Cut(BBitLen(n))

\* an integer of TLC is below 2^31 in magnitude, hence a double
FFromInt(n) ==
  LET At(s, k, len) ==
        [s |-> s, m |-> BShl(BFromInt(k), MantBits - len), e |-> len - MantBits]
      Exact(s, k) == At(s, k, IntBitLen(k))
  IN  IF n = 0 THEN FZero
      ELSE Exact(IF n < 0 THEN -1 ELSE 1, IF n < 0 THEN -n ELSE n)

FNeg(a) == IF FIsZero(a) THEN a ELSE [a EXCEPT !.s = -a.s]

\* magnitude comparison of two non-zero doubles
FCmpMag(a, b) ==
  IF a.e < b.e THEN -1 ELSE IF a.e > b.e THEN 1 ELSE BCmp(a.m, b.m)

\* -1, 0 or 1 as a <, =, > b
FCmp(a, b) ==
  IF FIsZero(a) THEN (IF FIsZero(b) THEN 0 ELSE -b.s)
  ELSE IF FIsZero(b) THEN a.s
  ELSE IF a.s # b.s THEN a.s
  ELSE a.s * FCmpMag(a, b)

FLt(a, b) == FCmp(a, b) < 0
FLe(a, b) == FCmp(a, b) <= 0
FGe(a, b) == FCmp(a, b) >= 0
FGt(a, b) == FCmp(a, b) > 0
FMin(a, b) == IF FLt(b, a) THEN b ELSE a
FMax(a, b) == IF FGt(b, a) THEN b ELSE a

FMul(a, b) ==
  IF FIsZero(a) \/ FIsZero(b) THEN FZero
  ELSE FRound(a.s * b.s, BMul(a.m, b.m), a.e + b.e, FALSE)

\* One limb of long division: the quotient digit and the remainder of
\* r * Base / d, for r < d and d of MantBits bits.  The digit is first
\* estimated from below on the leading bits, then corrected upwards.
RECURSIVE DivFix(_, _, _)
DivFix(q, r, d) ==
  IF BCmp(r, d) < 0 THEN <<q, r>> ELSE DivFix(q + 1, BSub(r, d), d)

DivDigit(r, d) ==
  LET From(est) == DivFix(est, BSub(BShlLimbs(r, 1), BMulSmall(d, est)), d)
  IN  From(BToInt(BShr(r, 22)) \div (BToInt(BShr(d, 36)) + 1))

\* the i-limb quotient and the remainder of r * Base^i / d (r < d)
RECURSIVE DivStep(_, _, _)
DivStep(r, d, i) ==
  IF i = 0 THEN <<<<>>, r>>
  ELSE LET Join(dg, qr) ==
             <<qr[1] \o [j \in 1..(i - 1 - Len(qr[1])) |-> 0] \o <<dg[1]>>, qr[2]>>
           Lower(dg) == Join(dg, DivStep(dg[2], d, i - 1))
       IN  Lower(DivDigit(r, d))

DivLimbs == 4

FDiv(a, b) ==
  IF FIsZero(a) THEN FZero
  ELSE
    LET Quot(qr, ge) ==
          FRound(a.s * b.s,
                 BNorm(qr[1] \o [j \in 1..(DivLimbs - Len(qr[1])) |-> 0]
                             \o (IF ge THEN <<1>> ELSE <<>>)),
                 a.e - b.e - DivLimbs * LimbBits, Len(qr[2]) > 0)
        Long(ge) ==
          Quot(DivStep(IF ge THEN BSub(a.m, b.m) ELSE a.m, b.m, DivLimbs), ge)
    IN  Long(BCmp(a.m, b.m) >= 0)

FAdd(a, b) ==
  IF FIsZero(a) THEN b
  ELSE IF FIsZero(b) THEN a
  ELSE
    LET Diff(hi, lo) == BSub(hi, lo)
        Signed(na, nb, e, c) ==
          IF a.s # b.s /\ c = 0 THEN FZero
          ELSE FRound(IF a.s = b.s \/ c > 0 THEN a.s ELSE b.s,
                      IF a.s = b.s THEN BAdd(na, nb)
                      ELSE Diff(IF c > 0 THEN na ELSE nb, IF c > 0 THEN nb ELSE na),
                      e, FALSE)
        Aligned(na, nb, e) == Signed(na, nb, e, BCmp(na, nb))
        At(e) == Aligned(BShl(a.m, a.e - e), BShl(b.m, b.e - e), e)
    IN  At(Min2(a.e, b.e))

FSub(a, b) == FAdd(a, FNeg(b))

\* The double a decimal literal num/den denotes (den a power of ten).
Dec(num, den) == FDiv(FFromInt(num), FFromInt(den))

\* Math.round: the integer nearest to a, ties towards +infinity.
MathRound(a) ==
  IF FIsZero(a) THEN 0
  ELSE IF a.e >= 0 THEN a.s * BToInt(BShl(a.m, a.e))
  ELSE
    \* floor(|a| + 1/2) for a > 0 and ceil(|a| - 1/2) for a < 0, in units
    \* of 2^-k: add a half, less one unit when negative, and drop k bits
    LET Frac(k) ==
          IF k > MantBits + 1 THEN 0
          ELSE a.s * BToInt(BShr(BSub(BAdd(a.m, BPow2(k - 1)),
                                      IF a.s < 0 THEN BOne ELSE <<>>), k))
    IN  Frac(-a.e)

\* Number.prototype.toFixed(d) of a >= 0, as the integer n of the decimal
\* n / 10^d it prints: n / 10^d - a is as close to zero as possible, and
\* the larger n when there are two.
ToFixed(a, d) ==
  LET Scaled(n) ==
        IF a.e >= 0 THEN BShl(n, a.e)
        ELSE BShr(BAdd(n, BPow2(-a.e - 1)), -a.e)
  IN  IF FIsZero(a) \/ -a.e > 2 * MantBits THEN <<>>
      ELSE Scaled(BMul(a.m, BPow(<<10>>, d)))

\* parseFloat(a.toFixed(d)): the double nearest to the printed decimal
parseFloatFixed(a, d) ==
  FDiv(FRound(1, ToFixed(a, d), 0, FALSE), FRound(1, BPow(<<10>>, d), 0, FALSE))

\* number | null: null is the record no double is (sign 0)
null == [s |-> 0, m |-> <<>>, e |-> 0]

\* Infinity: beyond every double in every comparison
Infinity == [s |-> 1, m |-> <<1>>, e |-> 2^10]

\* ------------------------------------------------------------------------
\* lib/scoring.ts: utility, weights, strategy and overall score
\* ------------------------------------------------------------------------

\* clamp(value, min, max) = Math.min(max, Math.max(min, Math.round(value))).
\* A value at or beyond a bound is decided before it is rounded (the result
\* is the same, and the rounded integer need not be formed).
\* clamp without its ceiling: Math.max(min, Math.round(value))
clampNoCeiling(value, min, max) ==
  IF FLe(value, FFromInt(min)) THEN min ELSE Max2(min, MathRound(value))

clamp(value, min, max) ==
  IF FGe(value, FFromInt(max)) THEN max
  ELSE IF FLe(value, FFromInt(min)) THEN min
  ELSE Min2(max, Max2(min, MathRound(value)))

\* the weights with the bridge weight cut to 0.10: they sum to 0.95
ScoreWeightsShort ==
  [demand         |-> Dec(30, 100),
   marketPresence |-> Dec(25, 100),
   liquidity      |-> Dec(30, 100),
   bridgeRisk     |-> Dec(10, 100)]

SCORE_WEIGHTS ==
  [demand         |-> Dec(30, 100),
   marketPresence |-> Dec(25, 100),
   liquidity      |-> Dec(30, 100),
   bridgeRisk     |-> Dec(15, 100)]

\* the weighted sum with the bridge term taken as a penalty
WeightedAvgBridgePenalty(scores) ==
  FSub(FAdd(FAdd(FMul(FFromInt(scores.demand), SCORE_WEIGHTS.demand),
                 FMul(FFromInt(scores.marketPresence), SCORE_WEIGHTS.marketPresence)),
            FMul(FFromInt(scores.liquidity), SCORE_WEIGHTS.liquidity)),
       FMul(FFromInt(scores.bridgeRisk), SCORE_WEIGHTS.bridgeRisk))

\* the weighted sum with dump risk weighed in like bridge risk
WeightedAvgWithDumpRisk(scores) ==
  FAdd(FAdd(FAdd(FAdd(FMul(FFromInt(scores.demand), SCORE_WEIGHTS.demand),
                      FMul(FFromInt(scores.marketPresence), SCORE_WEIGHTS.marketPresence)),
                 FMul(FFromInt(scores.liquidity), SCORE_WEIGHTS.liquidity)),
            FMul(FFromInt(scores.bridgeRisk), SCORE_WEIGHTS.bridgeRisk)),
       FMul(FFromInt(scores.dumpRisk), SCORE_WEIGHTS.bridgeRisk))

\* scores.demand * W.demand + scores.marketPresence * W.marketPresence
\*   + scores.liquidity * W.liquidity + scores.bridgeRisk * W.bridgeRisk,
\* summed left to right as JavaScript does.
WeightedAvg(scores) ==
  FAdd(FAdd(FAdd(FMul(FFromInt(scores.demand), SCORE_WEIGHTS.demand),
                 FMul(FFromInt(scores.marketPresence), SCORE_WEIGHTS.marketPresence)),
            FMul(FFromInt(scores.liquidity), SCORE_WEIGHTS.liquidity)),
       FMul(FFromInt(scores.bridgeRisk), SCORE_WEIGHTS.bridgeRisk))

Canonical == "Canonical Token Launch"
LpBased   == "LP-Based Migration"
Lbp       == "Liquidity Bootstrapping Event (LBP)"
Wrapped   == "Wrapped Token"

\* recommendStrategy with its third branch on the bridge score
recommendStrategyOnBridgeRisk(scores) ==
  LET Tree(avg) ==
        IF FGe(avg, FFromInt(70))
          THEN [strategy  |-> Canonical,
                rationale |-> "Strong demand, deep liquidity, and broad market presence."]
        ELSE IF FGe(avg, FFromInt(55))
          THEN [strategy  |-> LpBased,
                rationale |-> "Moderate scores across the board."]
        ELSE IF scores.bridgeRisk < 60
          THEN [strategy  |-> Lbp,
                rationale |-> "Liquidity on the source chain is thin."]
        ELSE [strategy  |-> Wrapped,
              rationale |-> "Overall readiness is below threshold."]
  IN  Tree(WeightedAvg(scores))

recommendStrategy(scores) ==
  LET Tree(avg) ==
        IF FGe(avg, FFromInt(70))
          THEN [strategy  |-> Canonical,
                rationale |-> "Strong demand, deep liquidity, and broad market presence."]
        ELSE IF FGe(avg, FFromInt(55))
          THEN [strategy  |-> LpBased,
                rationale |-> "Moderate scores across the board."]
        ELSE IF scores.liquidity < 40
          THEN [strategy  |-> Lbp,
                rationale |-> "Liquidity on the source chain is thin."]
        ELSE [strategy  |-> Wrapped,
              rationale |-> "Overall readiness is below threshold."]
  IN  Tree(WeightedAvg(scores))

calcOverallScore(scores) == clamp(WeightedAvg(scores), 0, 100)

\* ------------------------------------------------------------------------
\* Math.log10 under Math.round.  For an integer x >= 1,
\*   Math.round(k * log10(x)) >= j  <=>  x^(2k) >= 10^(2j-1),
\* so the rounded value is half the number of decimal digits of x^(2k)
\* (10^((2j-1)/(2k)) is irrational, far from every integer in binary64).
\* ------------------------------------------------------------------------
\* number of decimal digits of n >= 1
DecDigits(n) ==
  LET From(lo) ==
        lo + Cardinality({p \in lo..(lo + 2) : BCmp(n, BPow(<<10>>, p)) >= 0})
  IN  From(Max2(1, ((BBitLen(n) - 1) * 30103) \div 100000) - 1)

\* the integer an integer-valued double a >= 0 holds
FToBig(a) ==
  IF FIsZero(a) THEN <<>>
  ELSE IF a.e >= 0 THEN BShl(a.m, a.e) ELSE BShr(a.m, -a.e)

\* clamp(Math.log10(x) * k, 0, max) for an integer-valued x >= 1: from
\* x = 10^d with k * d >= max on, the product is at least max
clampLog10Times(x, k, max) ==
  IF FGe(x, FRound(1, BPow(<<10>>, (max + k - 1) \div k), 0, FALSE)) THEN max
  ELSE Min2(max, DecDigits(BPow(FToBig(x), 2 * k)) \div 2)

\* ------------------------------------------------------------------------
\* lib/scoring.ts: module scorers
\* ------------------------------------------------------------------------
\* marketCapRank: number | null; null is the value no rank takes
NoRank == 0 - 1

\* calcDemandScore with 50 points for the turnover, 110 in all
calcDemandScoreVolumeCapFifty(data) ==
  LET Result(volScore, rankScore, trendScore) ==
        [score |-> clamp(FFromInt(volScore + rankScore + trendScore), 0, 100),
         parts |-> <<volScore, rankScore, trendScore>>]
      volMcapRatio ==
        IF FGt(data.marketCap, FZero)
          THEN FMul(FDiv(data.volume24h, data.marketCap), FFromInt(100))
          ELSE FZero
  IN  Result(
        clamp(FMul(volMcapRatio, FFromInt(5)), 0, 50),
        IF data.marketCapRank # NoRank /\ data.marketCapRank # 0
          THEN clamp(FMax(FZero,
                          FSub(FFromInt(30),
                               FMul(FFromInt(data.marketCapRank), Dec(3, 10)))),
                     0, 30)
          ELSE 10,
        clamp(FAdd(FFromInt(15),
                   FAdd(FMul(data.priceChange7d, Dec(5, 10)),
                        FMul(data.priceChange30d, Dec(3, 10)))),
              0, 30))

calcDemandScore(data) ==
  LET Result(volScore, rankScore, trendScore) ==
        [score |-> clamp(FFromInt(volScore + rankScore + trendScore), 0, 100),
         parts |-> <<volScore, rankScore, trendScore>>]
      volMcapRatio ==
        IF FGt(data.marketCap, FZero)
          THEN FMul(FDiv(data.volume24h, data.marketCap), FFromInt(100))
          ELSE FZero
  IN  Result(
        clamp(FMul(volMcapRatio, FFromInt(5)), 0, 40),
        IF data.marketCapRank # NoRank /\ data.marketCapRank # 0
          THEN clamp(FMax(FZero,
                          FSub(FFromInt(30),
                               FMul(FFromInt(data.marketCapRank), Dec(3, 10)))),
                     0, 30)
          ELSE 10,
        clamp(FAdd(FFromInt(15),
                   FAdd(FMul(data.priceChange7d, Dec(5, 10)),
                        FMul(data.priceChange30d, Dec(3, 10)))),
              0, 30))

\* calcMarketPresenceScore with the concentration counted for the token
calcMarketPresenceScoreDirect(data) ==
  LET Result(recipientScore, concentrationScore, exchangeScore) ==
        [score |-> clamp(FFromInt(recipientScore + concentrationScore
                                  + exchangeScore), 0, 100),
         parts |-> <<recipientScore, concentrationScore, exchangeScore>>]
  IN  Result(
        IF data.holderDataAvailable
          THEN clampLog10Times(FFromInt(data.uniqueRecipients + 1), 13, 40)
          ELSE 20,
        IF data.holderDataAvailable
          THEN clamp(FMul(data.top10TransferPct, Dec(8, 10)),
                     0, 40)
          ELSE 20,
        clamp(FMul(FFromInt(data.tickerCount), Dec(4, 10)), 0, 20))

calcMarketPresenceScore(data) ==
  LET Result(recipientScore, concentrationScore, exchangeScore) ==
        [score |-> clamp(FFromInt(recipientScore + concentrationScore
                                  + exchangeScore), 0, 100),
         parts |-> <<recipientScore, concentrationScore, exchangeScore>>]
  IN  Result(
        IF data.holderDataAvailable
          THEN clampLog10Times(FFromInt(data.uniqueRecipients + 1), 13, 40)
          ELSE 20,
        IF data.holderDataAvailable
          THEN clamp(FSub(FFromInt(40), FMul(data.top10TransferPct, Dec(8, 10))),
                     0, 40)
          ELSE 20,
        clamp(FMul(FFromInt(data.tickerCount), Dec(4, 10)), 0, 20))

\* lib/holders.ts.  The paths of fetchHolderData: the chain has no chain id
\* ("unsupported"), the API answers with an error ("error"), the fetch throws
\* ("failed"), or the transfers are aggregated ("data": the number of distinct
\* recipients and the share of the top 10, both as the aggregation found them).
HolderOutcomes == {"unsupported", "error", "failed", "data"}

fetchHolderData(outcome, uniqueRecipients, top10TransferPct) ==
  IF outcome = "unsupported"
    THEN [supported |-> FALSE, uniqueRecipients |-> 0,
          top10TransferPct |-> FZero]
  ELSE IF outcome \in {"error", "failed"}
    THEN [supported |-> TRUE, uniqueRecipients |-> 0,
          top10TransferPct |-> FZero]
  ELSE [supported |-> TRUE, uniqueRecipients |-> uniqueRecipients,
        top10TransferPct |-> top10TransferPct]

\* the reference sizes with the simulator's $1K beside them
SlippageTradeSizesWithOneK ==
  << [usd |-> 1000,    label |-> "$1K"],
     [usd |-> 10000,   label |-> "$10K"],
     [usd |-> 100000,  label |-> "$100K"],
     [usd |-> 500000,  label |-> "$500K"],
     [usd |-> 1000000, label |-> "$1M"] >>

SLIPPAGE_TRADE_SIZES ==
  << [usd |-> 10000,   label |-> "$10K"],
     [usd |-> 100000,  label |-> "$100K"],
     [usd |-> 500000,  label |-> "$500K"],
     [usd |-> 1000000, label |-> "$1M"] >>

\* totalPoolTvlUsd holds an integer number of dollars
\* tvlScore without the turnover proxy: an absent TVL scores 0
tvlScoreWithoutProxy(data) ==
  IF FGt(data.totalPoolTvlUsd, FZero)
    THEN clampLog10Times(FAdd(data.totalPoolTvlUsd, FFromInt(1)), 10, 50)
    ELSE 0

\* tvlScore of calcLiquidityScore: the log10 scale of the pool TVL, or the
\* Vol/MCap proxy when there is none
tvlScore(data) ==
  IF FGt(data.totalPoolTvlUsd, FZero)
    THEN clampLog10Times(FAdd(data.totalPoolTvlUsd, FFromInt(1)), 10, 50)
    ELSE clamp(IF FGt(data.marketCap, FZero)
                 THEN FMul(FMul(FDiv(data.volume24h, data.marketCap),
                                FFromInt(100)),
                           FFromInt(5))
                 ELSE FZero,
               0, 50)

calcLiquidityScore(data) ==
  LET hasTvlData == FGt(data.totalPoolTvlUsd, FZero)
      Tier(usd, label, pct) ==
        IF ~hasTvlData \/ FIsZero(data.totalPoolTvlUsd)
          THEN [tradeSizeUsd |-> usd, label |-> label,
                slippagePct |-> null, riskLevel |-> "N/A"]
          ELSE [tradeSizeUsd |-> usd, label |-> label,
                slippagePct |-> parseFloatFixed(pct, 4),
                riskLevel |->
                  IF FLt(pct, Dec(1, 10)) THEN "Low"
                  ELSE IF FLt(pct, FFromInt(1)) THEN "Moderate"
                  ELSE IF FLt(pct, FFromInt(5)) THEN "High"
                  ELSE "Very High"]
      Result(tvlPoints, confidenceScore, exchangeScore, spreadScore) ==
        [score |-> clamp(FFromInt(tvlPoints + confidenceScore + exchangeScore
                                  + spreadScore), 0, 100),
         parts |-> <<tvlPoints, confidenceScore, exchangeScore, spreadScore>>,
         slippage |->
           [i \in 1..Len(SLIPPAGE_TRADE_SIZES) |->
              Tier(SLIPPAGE_TRADE_SIZES[i].usd, SLIPPAGE_TRADE_SIZES[i].label,
                   FMul(FDiv(FFromInt(SLIPPAGE_TRADE_SIZES[i].usd),
                             FMul(FFromInt(2), data.totalPoolTvlUsd)),
                        FFromInt(100)))]]
      spread ==
        IF FGt(data.high24h, FZero)
          THEN FMul(FDiv(FSub(data.high24h, data.low24h), data.high24h),
                    FFromInt(100))
          ELSE FFromInt(10)
  IN  Result(
        tvlScore(data),
        clamp(FMul(data.priceConfidence, FFromInt(20)), 0, 20),
        clamp(FMul(FFromInt(data.tickerCount), Dec(15, 100)), 0, 15),
        clamp(FSub(FFromInt(15), FMul(spread, Dec(15, 10))), 0, 15))

\* ------------------------------------------------------------------------
\* lib/bridges.ts and app/api/analyze/route.ts: the bridge score
\* ------------------------------------------------------------------------
Chains == {"ethereum", "bsc", "polygon"}

\* STATIC_BRIDGES[..].supportedChains
CcipChains      == {"ethereum", "polygon"}
LayerZeroChains == {"ethereum", "bsc", "polygon"}

\* fetchBridgeData(chain).supportedBridgeCount: Wormhole is always supported,
\* a static bridge when supportedChains includes the chain
supportedBridgeCount(chain) ==
  1 + (IF chain \in CcipChains THEN 1 ELSE 0)
    + (IF chain \in LayerZeroChains THEN 1 ELSE 0)

\* the functions every object literal inherits from Object.prototype: a
\* lookup table[chain] under one of these names finds the function
ObjectPrototypeKeys ==
  {"constructor", "toString", "valueOf", "hasOwnProperty"}

\* a value that may be null: <<>> is null, <<v>> is v
None == <<>>
Some(v) == <<v>>

WORMHOLE_CHAIN_ID == [ethereum |-> 2, bsc |-> 4, polygon |-> 5]
WORMHOLE_FIN      == [ethereum |-> 15, bsc |-> 5, polygon |-> 5]

STATIC_BRIDGES ==
  << [name |-> "CCIP (Chainlink)",
      finalityByChain |-> [ethereum |-> 20, bsc |-> 0, polygon |-> 15],
      supportedChains |-> CcipChains],
     [name |-> "LayerZero",
      finalityByChain |-> [ethereum |-> 10, bsc |-> 5, polygon |-> 5],
      supportedChains |-> LayerZeroChains] >>

\* table[chain] ?? fallback for a table that is an object literal: an
\* inherited function is found under the names of Object.prototype
Lookup(table, chain, fallback) ==
  IF chain \in DOMAIN table
    THEN [typeof |-> "number", value |-> table[chain]]
  ELSE IF chain \in ObjectPrototypeKeys
    THEN [typeof |-> "function", value |-> chain]
  ELSE [typeof |-> "number", value |-> fallback]

\* What the two governor requests of fetchWormholeChainData can come to: a
\* fetch rejects, a response is not OK, the body has no entry for the chain,
\* or both entries are there.
WormholeOutcomes ==
  {"availRejects", "limitRejects", "availNotOk", "limitNotOk",
   "availMissing", "limitMissing", "ok"}

\* fetchWormholeChainData: null, or the capacity of the chain
fetchWormholeChainData(chain, outcome, availableNotional, maxTransactionSize, notionalLimit) ==
  LET Capacity(capacityPct) ==
        Some([availableNotional |-> availableNotional,
              dailyLimit        |-> notionalLimit,
              maxTxSize         |-> maxTransactionSize,
              capacityPct       |-> capacityPct,
              congestion        |->
                IF 100 - capacityPct < 30 THEN "Low"
                ELSE IF 100 - capacityPct < 70 THEN "Moderate"
                ELSE "High"])
  IN  IF chain \notin DOMAIN WORMHOLE_CHAIN_ID /\ chain \notin ObjectPrototypeKeys
        THEN None
      ELSE IF outcome # "ok" THEN None
      ELSE IF chain \notin DOMAIN WORMHOLE_CHAIN_ID THEN None
      ELSE IF notionalLimit = 0 THEN None
      ELSE Capacity(MathRound(FMul(FDiv(FFromInt(availableNotional),
                                        FFromInt(notionalLimit)),
                                   FFromInt(100))))

\* the reduction with > for <: the slowest supported bridge
RECURSIVE SlowestFrom(_, _, _)
SlowestFrom(supported, acc, i) ==
  IF i > Len(supported) THEN acc
  ELSE SlowestFrom(supported,
                   IF acc = None
                        \/ supported[i].finalityMin.value > acc[1].finalityMin.value
                     THEN Some(supported[i]) ELSE acc,
                   i + 1)

\* supported.reduce((acc, b) => acc === null || b.finalityMin <
\* acc.finalityMin ? b : acc, null) from entry i on
RECURSIVE FastestFrom(_, _, _)
FastestFrom(supported, acc, i) ==
  IF i > Len(supported) THEN acc
  ELSE FastestFrom(supported,
                   IF acc = None
                        \/ supported[i].finalityMin.value < acc[1].finalityMin.value
                     THEN Some(supported[i]) ELSE acc,
                   i + 1)

fetchBridgeData(chain, wormholeData) ==
  LET wormholeEntry ==
        [name |-> "Wormhole", supported |-> TRUE,
         finalityMin |-> Lookup(WORMHOLE_FIN, chain, 15),
         wormhole |->
           IF wormholeData # None
             THEN Some([availableNotionalUsd |-> Some(wormholeData[1].availableNotional),
                        dailyLimitUsd        |-> Some(wormholeData[1].dailyLimit),
                        maxSingleTxUsd       |-> Some(wormholeData[1].maxTxSize),
                        capacityPct          |-> Some(wormholeData[1].capacityPct),
                        congestion           |-> wormholeData[1].congestion])
             ELSE Some([availableNotionalUsd |-> None,
                        dailyLimitUsd        |-> None,
                        maxSingleTxUsd       |-> None,
                        capacityPct          |-> None,
                        congestion           |-> "Unknown"])]
      staticEntries ==
        [i \in 1..Len(STATIC_BRIDGES) |->
           [name |-> STATIC_BRIDGES[i].name,
            supported |-> chain \in STATIC_BRIDGES[i].supportedChains,
            finalityMin |->
              IF chain \in STATIC_BRIDGES[i].supportedChains
                THEN Lookup(STATIC_BRIDGES[i].finalityByChain, chain, 0)
                ELSE [typeof |-> "number", value |-> 0],
            wormhole |-> None]]
      Result(bridges, supported, fastest) ==
        [chain |-> chain,
         bridges |-> bridges,
         supportedBridgeCount |-> Len(supported),
         fastestBridgeName |->
           IF fastest # None THEN Some(fastest[1].name) ELSE None,
         fastestFinalityMin |->
           IF fastest # None THEN Some(fastest[1].finalityMin) ELSE None]
      Fastest(bridges, supported) ==
        Result(bridges, supported, FastestFrom(supported, None, 1))
      Supported(bridges) ==
        Fastest(bridges, SelectSeq(bridges, LAMBDA b : b.supported))
  IN  Supported(<<wormholeEntry>> \o staticEntries)

\* the bridge score with 10 points for a bridge
bridgeScoreTenPerBridge(count) == clamp(FFromInt(30 + count * 10), 0, 100)

bridgeScore(count) == clamp(FFromInt(30 + count * 20), 0, 100)

\* calcBridgeScore of lib/scoring.ts: the static table of the bridges
BRIDGE_DATA ==
  [ethereum |->
     << [name |-> "Wormhole", supported |-> TRUE, finalityMin |-> 15],
        [name |-> "CCIP (Chainlink)", supported |-> TRUE, finalityMin |-> 20],
        [name |-> "LayerZero", supported |-> TRUE, finalityMin |-> 10] >>,
   bsc |->
     << [name |-> "Wormhole", supported |-> TRUE, finalityMin |-> 5],
        [name |-> "CCIP (Chainlink)", supported |-> FALSE, finalityMin |-> 0],
        [name |-> "LayerZero", supported |-> TRUE, finalityMin |-> 5] >>,
   polygon |->
     << [name |-> "Wormhole", supported |-> TRUE, finalityMin |-> 5],
        [name |-> "CCIP (Chainlink)", supported |-> TRUE, finalityMin |-> 15],
        [name |-> "LayerZero", supported |-> TRUE, finalityMin |-> 5] >>]

\* Math.min(...seq.map((b) => b.finalityMin)) of a sequence that is not empty
MinFinality(seq) ==
  CHOOSE m \in {seq[i].finalityMin : i \in DOMAIN seq} :
    \A i \in DOMAIN seq : m <= seq[i].finalityMin

\* calcBridgeScore(chain).  Under a name of Object.prototype BRIDGE_DATA[chain]
\* is a function, not an array, and bridges.filter throws a TypeError.
calcBridgeScore(chain) ==
  LET Result(bridges, supported) ==
        [score |-> clamp(FFromInt(30 + Len(supported) * 20), 0, 100),
         bridges |-> bridges,
         breakdown |->
           ("Source Chain" :> chain)
             @@ ("Bridges Available" :> Len(supported))
             @@ ("Fastest Bridge" :>
                   IF Len(supported) > 0 THEN supported[1].name ELSE "None")
             @@ ("Fastest Finality (min)" :>
                   IF Len(supported) > 0 THEN MinFinality(supported) ELSE 0)]
      Supported(bridges) ==
        Result(bridges, SelectSeq(bridges, LAMBDA b : b.supported))
  IN  IF chain \in ObjectPrototypeKeys
        THEN [threw |-> "TypeError: bridges.filter is not a function"]
      ELSE IF chain \in DOMAIN BRIDGE_DATA
        THEN Supported(BRIDGE_DATA[chain])
      ELSE Supported(BRIDGE_DATA["ethereum"])

\* ------------------------------------------------------------------------
\* lib/liquidity-sim.ts
\* ------------------------------------------------------------------------
TRADE_TIERS ==
  << [usd |-> 1000,    label |-> "$1K"],
     [usd |-> 10000,   label |-> "$10K"],
     [usd |-> 100000,  label |-> "$100K"],
     [usd |-> 1000000, label |-> "$1M"] >>

SOLANA_TVL_FRACTION  == Dec(10, 100)
SOLANA_TVL_FLOOR_USD == 10000
SOLANA_TVL_CAP_USD   == 50000000

BRIDGE_MIDPOINTS == [ethereum |-> 9, bsc |-> 3, polygon |-> 2]

\* calcSlippage answering 0 instead of null for an empty pool
calcSlippageZeroForEmpty(tradeSizeUsd, poolTvlUsd) ==
  IF FLe(poolTvlUsd, FZero) THEN FZero
  ELSE FMul(FDiv(tradeSizeUsd, FMul(FFromInt(2), poolTvlUsd)), FFromInt(100))

\* calcSlippage with the pool and the trade exchanged
calcSlippageInverted(tradeSizeUsd, poolTvlUsd) ==
  IF FLe(poolTvlUsd, FZero) THEN null
  ELSE FMul(FDiv(poolTvlUsd, FMul(FFromInt(2), tradeSizeUsd)), FFromInt(100))

calcSlippage(tradeSizeUsd, poolTvlUsd) ==
  IF FLe(poolTvlUsd, FZero) THEN null
  ELSE FMul(FDiv(tradeSizeUsd, FMul(FFromInt(2), poolTvlUsd)), FFromInt(100))

\* riskLevel with the boundaries on the safer side: <= for <
riskLevelBoundarySafer(pct) ==
  IF pct = null THEN "N/A"
  ELSE IF FLe(pct, Dec(1, 10)) THEN "Low"
  ELSE IF FLe(pct, FFromInt(1)) THEN "Moderate"
  ELSE IF FLe(pct, FFromInt(5)) THEN "High"
  ELSE "Very High"

riskLevel(pct) ==
  IF pct = null THEN "N/A"
  ELSE IF FLt(pct, Dec(1, 10)) THEN "Low"
  ELSE IF FLt(pct, FFromInt(1)) THEN "Moderate"
  ELSE IF FLt(pct, FFromInt(5)) THEN "High"
  ELSE "Very High"

buildProjection(label, tvlUsd) ==
  LET Tier(usd, tLabel, pct) ==
        [tradeSizeUsd |-> usd,
         label        |-> tLabel,
         slippagePct  |-> IF pct # null THEN parseFloatFixed(pct, 4) ELSE null,
         riskLevel    |-> riskLevel(pct)]
      Depths(quoteReserve) ==
        [label |-> label, tvlUsd |-> tvlUsd,
         slippageTiers |->
           [i \in 1..Len(TRADE_TIERS) |->
              Tier(TRADE_TIERS[i].usd, TRADE_TIERS[i].label,
                   calcSlippage(FFromInt(TRADE_TIERS[i].usd), tvlUsd))],
         depth1PctUsd |-> MathRound(FMul(quoteReserve, Dec(1, 100))),
         depth5PctUsd |-> MathRound(FMul(quoteReserve, Dec(5, 100)))]
  IN  Depths(FDiv(tvlUsd, FFromInt(2)))

\* lpNeededForSlippage without the halving of the pool: 100 for 50
lpNeededForSlippageWholePool(targetTradeUsd, maxSlippagePct) ==
  IF FLe(maxSlippagePct, FZero) THEN Infinity
  ELSE FDiv(FMul(targetTradeUsd, FFromInt(100)), maxSlippagePct)

\* lpNeededForSlippage answering 0 for a ceiling that is not positive
lpNeededForSlippageNoSeed(targetTradeUsd, maxSlippagePct) ==
  IF FLe(maxSlippagePct, FZero) THEN FZero
  ELSE FDiv(FMul(targetTradeUsd, FFromInt(50)), maxSlippagePct)

lpNeededForSlippage(targetTradeUsd, maxSlippagePct) ==
  IF FLe(maxSlippagePct, FZero) THEN Infinity
  ELSE FDiv(FMul(targetTradeUsd, FFromInt(50)), maxSlippagePct)

\* fmt(n) of buildRecommendation: the printed amount and its unit
fmt(n) ==
  IF FGe(n, FFromInt(1000000))
    THEN <<"$", BToInt(ToFixed(FDiv(n, FFromInt(1000000)), 1)), "tenths", "M">>
  ELSE IF FGe(n, FFromInt(1000))
    THEN <<"$", BToInt(ToFixed(FDiv(n, FFromInt(1000)), 0)), "units", "K">>
  ELSE <<"$", BToInt(ToFixed(n, 0)), "units", "">>

buildRecommendation(minLpUsd, targetLpUsd) ==
  [minLpUsd    |-> MathRound(minLpUsd),
   targetLpUsd |-> MathRound(targetLpUsd),
   rationale   |-> <<"Seed at least", fmt(minLpUsd),
                     "for <1% slippage on $10K trades.",
                     "Seed", fmt(targetLpUsd),
                     "for <1% slippage on $100K trades.">>]

Capitalized(chain) ==
  CASE chain = "ethereum"    -> "Ethereum"
    [] chain = "bsc"         -> "Bsc"
    [] chain = "polygon"     -> "Polygon"
    [] chain = "avalanche"   -> "Avalanche"
    [] chain = "constructor" -> "Constructor"
    [] OTHER                 -> chain

\* the seeding with a floor of ten times SOLANA_TVL_FLOOR_USD
SeededTvlFloorTenfold(totalPoolTvlUsd) ==
  IF FGt(totalPoolTvlUsd, FZero)
    THEN FMin(FFromInt(SOLANA_TVL_CAP_USD),
              FMax(FMul(FFromInt(SOLANA_TVL_FLOOR_USD), FFromInt(10)),
                   FMul(totalPoolTvlUsd, SOLANA_TVL_FRACTION)))
    ELSE FZero

\* the seeding without its floor: Math.min(CAP, rawSolanatvl)
SeededTvlNoFloor(totalPoolTvlUsd) ==
  IF FGt(totalPoolTvlUsd, FZero)
    THEN FMin(FFromInt(SOLANA_TVL_CAP_USD),
              FMul(totalPoolTvlUsd, SOLANA_TVL_FRACTION))
    ELSE FZero

\* the seeding with the floor applied to an empty source pool as well
SeededTvlFloorWithoutData(totalPoolTvlUsd) ==
  FMin(FFromInt(SOLANA_TVL_CAP_USD),
       FMax(FFromInt(SOLANA_TVL_FLOOR_USD),
            FMul(totalPoolTvlUsd, SOLANA_TVL_FRACTION)))

\* seededTvlUsd of runLiquiditySim:
\*   hasTvlData ? Math.min(CAP, Math.max(FLOOR, rawSolanatvl)) : 0
SeededTvl(totalPoolTvlUsd) ==
  IF FGt(totalPoolTvlUsd, FZero)
    THEN FMin(FFromInt(SOLANA_TVL_CAP_USD),
              FMax(FFromInt(SOLANA_TVL_FLOOR_USD),
                   FMul(totalPoolTvlUsd, SOLANA_TVL_FRACTION)))
    ELSE FZero

\* JavaScript values travel with their typeof where they need not be numbers
runLiquiditySim(totalPoolTvlUsd, priceUsd, chain) ==
  LET hasTvlData   == FGt(totalPoolTvlUsd, FZero)
      bridgeFeeUsd ==
        IF chain \in DOMAIN BRIDGE_MIDPOINTS
          THEN [typeof |-> "number", value |-> BRIDGE_MIDPOINTS[chain]]
        ELSE IF chain \in ObjectPrototypeKeys
          THEN [typeof |-> "function", value |-> chain]
        ELSE [typeof |-> "number", value |-> 5]
      Plus(a, n) ==
        IF a.typeof = "number"
          THEN [typeof |-> "number", value |-> a.value + n]
          ELSE [typeof |-> "string", value |-> <<a.value, n>>]
      Result(seededTvlUsd, recommendation) ==
        [currentChain |-> buildProjection(<<"Current", Capitalized(chain)>>,
                                          totalPoolTvlUsd),
         solana |-> buildProjection(<<"Solana (Post-Migration)">>, seededTvlUsd),
         seededTvlUsd |-> seededTvlUsd,
         recommendation |-> recommendation,
         migrationCost |->
           [bridgeFeeUsd |-> bridgeFeeUsd,
            lpSeedUsd    |-> recommendation.targetLpUsd,
            totalEstUsd  |-> Plus(bridgeFeeUsd, recommendation.targetLpUsd)],
         hasTvlData |-> hasTvlData,
         note |->
           IF hasTvlData
             THEN <<"Solana pool modeled at 10% of current", chain, "TVL ($",
                    BToInt(ToFixed(FDiv(seededTvlUsd, FFromInt(1000)), 0)),
                    "K). CPMM constant-product formula (x*y=k). ",
                    "Lower-bound estimate - real slippage may be higher.">>
             ELSE <<"No DeFiLlama TVL found. ",
                    "Slippage estimates unavailable - ",
                    "enter a token with active DEX pools.">>]
  IN  Result(
        SeededTvl(totalPoolTvlUsd),
        buildRecommendation(lpNeededForSlippage(FFromInt(10000), FFromInt(1)),
                            lpNeededForSlippage(FFromInt(100000), FFromInt(1))))

\* ------------------------------------------------------------------------
\* app/api/analyze/route.ts: POST and the fetchers it awaits
\* ------------------------------------------------------------------------
\* A string is the sequence of its characters.  String.prototype.trim:
RECURSIVE trim(_)
trim(s) ==
  IF s = <<>> THEN s
  ELSE IF Head(s) = " " THEN trim(Tail(s))
  ELSE IF s[Len(s)] = " " THEN trim(SubSeq(s, 1, Len(s) - 1))
  ELSE s

\* addr.startsWith("0x") && addr.length === 42
isValidAddress(addr) ==
  /\ Len(addr) >= 2
  /\ SubSeq(addr, 1, 2) = <<"0", "x">>
  /\ Len(addr) = 42

\* What a call of geckoClient comes to: the data, or an error of the SDK
\* (NotFoundError, RateLimitError and InternalServerError are APIErrors with
\* a status, APIConnectionError is an APIError without one) or another throw.
GeckoOutcomes ==
  {"ok", "NotFoundError", "RateLimitError", "InternalServerError",
   "APIConnectionError", "TypeError"}

APIErrorClasses ==
  {"NotFoundError", "RateLimitError", "InternalServerError",
   "APIConnectionError"}

GeckoError(class) ==
  [class |-> class,
   status |-> CASE class = "NotFoundError"       -> Some(404)
                [] class = "RateLimitError"      -> Some(429)
                [] class = "InternalServerError" -> Some(503)
                [] OTHER                         -> None]

geckoClient(outcome) ==
  IF outcome = "ok" THEN [fetched |-> TRUE]
  ELSE [threw |-> GeckoError(outcome)]

\* lib/liquidity.ts.  fetchLiquidityData: a DeFiLlama fetch rejects
\* ("rejects", caught), both responses are not OK ("notOk"), or the pools
\* of the token sum to totalPoolTvlUsd ("ok").
LiquidityOutcomes == {"rejects", "notOk", "ok"}

\* fetchLiquidityData without its catch: a rejected fetch rejects the promise
fetchLiquidityDataUncaught(outcome, totalPoolTvlUsd, priceConfidence) ==
  IF outcome = "rejects"
    THEN [threw |-> [class |-> "TypeError", status |-> None]]
  ELSE IF outcome = "notOk"
    THEN [totalPoolTvlUsd |-> 0, poolCount |-> 0, priceConfidence |-> 0]
  ELSE [totalPoolTvlUsd |-> totalPoolTvlUsd, poolCount |-> 1,
        priceConfidence |-> priceConfidence]

fetchLiquidityData(outcome, totalPoolTvlUsd, priceConfidence) ==
  IF outcome \in {"rejects", "notOk"}
    THEN [totalPoolTvlUsd |-> 0, poolCount |-> 0, priceConfidence |-> 0]
  ELSE [totalPoolTvlUsd |-> totalPoolTvlUsd, poolCount |-> 1,
        priceConfidence |-> priceConfidence]

\* the promises of Promise.all in POST
Tasks == {"coin", "chart", "holder", "liquidity", "bridge"}

\* the catch of POST
errorResponse(err) ==
  IF err.class = "NotFoundError"
    THEN [status |-> 404,
          error |-> "Token not found on CoinGecko. Check the contract address and chain."]
  ELSE IF err.class = "RateLimitError"
    THEN [status |-> 429,
          error |-> "CoinGecko rate limit hit. Please wait a moment and retry."]
  ELSE IF err.class \in APIErrorClasses
    THEN [status |-> IF err.status # None THEN err.status[1] ELSE 500,
          error |-> "CoinGecko API error"]
  ELSE [status |-> 500, error |-> "Internal server error."]

\* ------------------------------------------------------------------------
\* lib/liquidity-sim.ts: parseExchangeListings
\* ------------------------------------------------------------------------
\* the identifiers of DEX_IDENTIFIERS among the exchanges explored
DEX_IDENTIFIERS == {"uniswap", "uniswap_v2", "uniswap_v3", "sushiswap", "curve"}

\* A ticker is [identifier, usd, target0x]: market.identifier ("" when the
\* ticker has none), converted_volume.usd in whole dollars, and whether the
\* target starts with "0x".  A listing keeps the identifier, the type and
\* the rounded volume.
parseExchangeListings(tickers) ==
  LET Upsert(best, t) ==
        IF \E k \in DOMAIN best : best[k].identifier = t.identifier
          THEN [k \in DOMAIN best |->
                  IF best[k].identifier = t.identifier /\ t.usd > best[k].usd
                    THEN t ELSE best[k]]
          ELSE Append(best, t)
      RECURSIVE Group(_, _)
      Group(i, best) ==
        IF i > Len(tickers) THEN best
        ELSE Group(i + 1, IF tickers[i].identifier = "" THEN best
                          ELSE Upsert(best, tickers[i]))
      isDex(t) ==
        \/ t.identifier \in DEX_IDENTIFIERS
        \/ t.target0x
        \/ t.identifier \in {"uniswap_v3", "sushiswap"}   \* includes("swap")
      Entry(t) ==
        [identifier |-> t.identifier,
         type       |-> IF isDex(t) THEN "dex" ELSE "cex",
         volumeUsd  |-> t.usd]
      Before(sorted, e) ==
        Cardinality({k \in DOMAIN sorted : sorted[k].volumeUsd >= e.volumeUsd})
      RECURSIVE Sort(_, _, _)
      Sort(list, i, sorted) ==
        IF i > Len(list) THEN sorted
        ELSE Sort(list, i + 1,
                  SubSeq(sorted, 1, Before(sorted, list[i]))
                    \o <<list[i]>>
                    \o SubSeq(sorted, Before(sorted, list[i]) + 1, Len(sorted)))
      RECURSIVE Sum(_)
      Sum(list) ==
        IF list = <<>> THEN 0 ELSE Head(list).volumeUsd + Sum(Tail(list))
      Entries(best) == [k \in DOMAIN best |-> Entry(best[k])]
      Summary(dexListings, cexListings) ==
        [dexListings |-> dexListings,
         cexListings |-> cexListings,
         totalDexCount |-> Len(dexListings),
         totalCexCount |-> Len(cexListings),
         totalVolumeUsd |-> Sum(dexListings \o cexListings),
         topVenueName |->
           IF dexListings \o cexListings = <<>> THEN None
           ELSE Some(Sort(dexListings \o cexListings, 1, <<>>)[1].identifier)]
      Classified(entries) ==
        Summary(Sort(SelectSeq(entries, LAMBDA e : e.type = "dex"), 1, <<>>),
                Sort(SelectSeq(entries, LAMBDA e : e.type = "cex"), 1, <<>>))
  IN  IF tickers = <<>>
        THEN [dexListings |-> <<>>, cexListings |-> <<>>, totalDexCount |-> 0,
              totalCexCount |-> 0, totalVolumeUsd |-> 0, topVenueName |-> None]
        ELSE Classified(Entries(Group(1, <<>>)))

\* ------------------------------------------------------------------------
\* The program as a state machine.  A client sends one request at a time; the
\* server is stateless, so a request is answered from its inputs alone.
\*   req  : the request in flight (the function asked for and its inputs)
\*   resp : the response not yet read by the client
\* Inputs travel as JSON numbers: whole dollars and counts as integers,
\* percentages and confidences in hundredths; a handler reads them as doubles.
\* ------------------------------------------------------------------------
VARIABLES req, resp

vars == <<req, resp>>

Idle == [fn |-> "none"]

\* bounds of the inputs explored
MaxVolumeUsd     == 500000000
MaxMarketCapUsd  == 1000000000
MaxRank          == 3000
MaxPriceChange   == 30000
MaxRecipients    == 5000
MaxTickerCount   == 120
MaxTvlUsd        == 1000000000
MaxCeilingTenths == 60
MaxNegCeilingTenths == 20
MaxNotionalUsd      == 1000000
MaxTickers          == 3
MaxRenders          == 4
MaxBridgeCount      == 8

Volumes      == {0, 1000000, MaxVolumeUsd}
MarketCaps   == {0, 20000000, MaxMarketCapUsd}
Ranks        == {NoRank, 0, 1, 50, 100, MaxRank}
PriceChanges == {-10000, -1234, 2500, MaxPriceChange}

DemandInputs ==
  [volume24h : Volumes, marketCap : MarketCaps, marketCapRank : Ranks,
   priceChange7d : PriceChanges, priceChange30d : {-5000, 0, 9999}]

MarketPresenceInputs ==
  [uniqueRecipients : {0, 1, 99, 1092, MaxRecipients},
   top10TransferPct : {0, 2550, 5000, 10000},
   holderDataAvailable : BOOLEAN,
   tickerCount : {0, 1, 50, MaxTickerCount}]

\* what the last 1000 transfers can aggregate to: <<recipients, share of the
\* top 10 in hundredths of a percent>>
HolderSamples == {<<0, 0>>, <<1, 10000>>, <<640, 2550>>, <<1000, 100>>}

HolderInputs ==
  {[outcome |-> o, uniqueRecipients |-> h[1], top10TransferPct |-> h[2],
    tickerCount |-> t] :
     o \in HolderOutcomes, h \in HolderSamples, t \in {0, 50}}

\* source-chain TVLs sent to the scorer
ScoredTvls == {-1000, 0, 1, 89125, 5001000, MaxTvlUsd}

\* the pool sizes the comment of calcLiquidityScore gives points for
DocumentedTvls == {1000000, 10000000, 100000000}

LiquidityInputs ==
  [totalPoolTvlUsd : ScoredTvls, priceConfidence : {0, 95},
   tickerCount : {0, MaxTickerCount},
   volume24h : {1000000}, marketCap : {0, 20000000},
   high24h : {0, 10500}, low24h : {0, 9500, 20000}]
    \cup [totalPoolTvlUsd : ScoredTvls, priceConfidence : {95},
          tickerCount : {0},
          volume24h : {400000, 3000000}, marketCap : {0, 20000000},
          high24h : {10500}, low24h : {9500}]
    \cup [totalPoolTvlUsd : DocumentedTvls, priceConfidence : {95},
          tickerCount : {0},
          volume24h : {1000000}, marketCap : {20000000},
          high24h : {10500}, low24h : {9500}]

ChainNames == Chains \cup {"avalanche"}

\* module scores sent to the strategy step (dumpRisk travels with them)
StrategyInputs ==
  [demand : {0, 44, 57, 70, 100}, marketPresence : {0, 55, 76, 100},
   liquidity : {0, 38, 39, 40, 100}, bridgeRisk : {50, 70, 90},
   dumpRisk : {0, 100}]
    \cup {[demand |-> s, marketPresence |-> s, liquidity |-> s,
           bridgeRisk |-> s, dumpRisk |-> 0] : s \in 0..100}

\* source-chain TVLs sent to the simulator
SimTvls ==
  {-1000, 0, 1, 250, 9999, 10000, 10001, 50000, 99999, 100000, 100010, 123457, 250000, 500000,
   500100, 1000000, 5000000, 5001000, 12345678, 50000000, 50001000,
   499999990, 500000000, 500000010, MaxTvlUsd}

\* chains sent to the simulator: a known one, an unknown one, and a name that
\* Object.prototype answers to
SimChains == {"ethereum", "avalanche", "constructor"}

SimInputs ==
  [totalPoolTvlUsd : SimTvls, priceUsd : {1}, chain : SimChains]
    \cup [totalPoolTvlUsd : {0}, priceUsd : {0, 1}, chain : SimChains \cup {"bsc", ""}]

\* ceilings travel in tenths of a percent, zero and negative ones included
RoundTripInputs ==
  [targetTradeUsd : {1000, 10000, 100000},
   maxSlippagePct : (0 - MaxNegCeilingTenths)..MaxCeilingTenths]

\* chains sent to the bridge step
BridgeChains == Chains \cup {"avalanche", "constructor"}

\* governor figures of a chain: <<availableNotional, maxTransactionSize,
\* notionalLimit>>
WormholeSamples ==
  {<<0, 1000, MaxNotionalUsd>>,
   <<35 * (MaxNotionalUsd \div 100), 50000, MaxNotionalUsd>>,
   <<80 * (MaxNotionalUsd \div 100), 50000, MaxNotionalUsd>>,
   <<MaxNotionalUsd, MaxNotionalUsd, MaxNotionalUsd>>,
   <<500000, 100000, 0>>}

FetchBridgeInputs ==
  [chain : BridgeChains, outcome : WormholeOutcomes, governor : WormholeSamples]

BridgeRequests ==
  {[fn |-> "fetchBridgeData", in |-> i] : i \in FetchBridgeInputs}
    \cup {[fn |-> "calcBridgeScore", in |-> i] : i \in [chain : BridgeChains]}
    \cup {[fn |-> "clamp", in |-> i] :
            i \in [supportedBridgeCount : 0..MaxBridgeCount]}

\* token addresses of a request body, character by character: a valid one,
\* one padded with blanks, and ones without the prefix or the length
Chars(c, n) == [i \in 1..n |-> c]

ValidToken == <<"0", "x">> \o Chars("a", 40)

PaddedToken == <<" ">> \o ValidToken \o <<" ">>

InvalidTokens ==
  {Chars("a", 42), <<"0", "X">> \o Chars("a", 40), <<"0", "x">> \o Chars("a", 39),
   <<"0", "x">> \o Chars("a", 41), <<"x", "0">> \o Chars("a", 40), <<>>}

\* what CoinGecko returns for the token when it answers
CoinSample ==
  [volume24h |-> 1000000, marketCap |-> 20000000, marketCapRank |-> 50,
   priceChange7d |-> 2500, priceChange30d |-> 0, tickerCount |-> 50,
   high24h |-> 10500, low24h |-> 9500]

\* bodies of POST /api/analyze with the outcome of each upstream: every
\* combination of the three fallible upstreams under a CoinGecko that
\* answers, and every failure of CoinGecko over upstreams that all answer
\* or all fail.  Etherscan serves ethereum and not bsc.
RouteInputs ==
  LET GeckoPairs ==
        {<<g, "ok">> : g \in GeckoOutcomes}
          \cup {<<"ok", "RateLimitError">>, <<"ok", "TypeError">>,
                <<"NotFoundError", "RateLimitError">>}
      Upstreams ==
        {u \in [chain : {"ethereum", "bsc"}, holder : HolderOutcomes,
                liquidity : LiquidityOutcomes,
                wormhole : {"ok", "availRejects"}] :
           u.holder = "unsupported" <=> u.chain = "bsc"}
      AllOrNothing ==
        {v \in Upstreams :
           \/ v.liquidity = "ok" /\ v.wormhole = "ok"
                /\ v.holder \in {"data", "unsupported"}
           \/ v.liquidity = "rejects" /\ v.wormhole = "availRejects"
                /\ v.holder = "failed"}
      Body(g, u) ==
        [body |-> "json", token |-> ValidToken, chain |-> u.chain,
         coin |-> g[1], chart |-> g[2], holder |-> u.holder,
         liquidity |-> u.liquidity, wormhole |-> u.wormhole]
  IN  {Body(g, u) : g \in GeckoPairs, u \in AllOrNothing}
        \cup {Body(<<"ok", "ok">>, u) : u \in Upstreams}
        \cup [body : {"json", "malformed"},
              token : InvalidTokens \cup {PaddedToken, ValidToken},
              chain : {"ethereum"}, coin : {"ok"}, chart : {"ok"},
              holder : {"data"}, liquidity : {"ok"}, wormhole : {"ok"}]

RouteRequests ==
  {[fn |-> "POST", in |-> i, pc |-> "received", settled |-> <<>>,
    rejected |-> None] : i \in RouteInputs}

\* tickers of a coin: a CEX, a DEX, an exchange told by its target, and a
\* ticker without a market identifier
Tickers ==
  [identifier : {"", "binance", "uniswap_v3", "kraken"}, usd : {0, 50, 100},
   target0x : {FALSE}]
    \cup {[identifier |-> "kraken", usd |-> 70, target0x |-> TRUE]}

TickerLists ==
  UNION {[1..n -> Tickers] : n \in 0..MaxTickers}

\* app/tokens/page.tsx.  What GET /api/top-tokens answers for a chain, and
\* the TokensPage component after its first render and effect: the state of
\* its four useState hooks and the fetches it has in flight, the one issued
\* by the effect of render number `renders` among them.
topTokens(chain) ==
  [i \in 1..12 |-> [chain |-> chain, rank |-> i]]

TokensPage ==
  [fn |-> "TokensPage", active |-> "ethereum", tokens |-> <<>>,
   loading |-> TRUE, error |-> "", renders |-> 1,
   pending |-> {[chain |-> "ethereum", render |-> 1]}]

Requests(fn, inputs) == {[fn |-> fn, in |-> i] : i \in inputs}

ScoringRequests ==
  Requests("calcDemandScore", DemandInputs)
    \cup Requests("calcMarketPresenceScore", MarketPresenceInputs)
    \cup Requests("calcLiquidityScore", LiquidityInputs)
    \cup Requests("bridgeScore", [chain : ChainNames])
    \cup Requests("fetchHolderData", HolderInputs)

StrategyRequests == Requests("recommendStrategy", StrategyInputs)

SimRequests ==
  Requests("runLiquiditySim", SimInputs)
    \cup Requests("calcLiquidityScore", LiquidityInputs)
    \cup Requests("lpNeededForSlippage", RoundTripInputs)

\* the doubles a handler receives
DemandData(in) ==
  [volume24h      |-> FFromInt(in.volume24h),
   marketCap      |-> FFromInt(in.marketCap),
   marketCapRank  |-> in.marketCapRank,
   priceChange7d  |-> Dec(in.priceChange7d, 100),
   priceChange30d |-> Dec(in.priceChange30d, 100)]

MarketPresenceData(in) ==
  [uniqueRecipients    |-> in.uniqueRecipients,
   top10TransferPct    |-> Dec(in.top10TransferPct, 100),
   holderDataAvailable |-> in.holderDataAvailable,
   tickerCount         |-> in.tickerCount]

LiquidityData(in) ==
  [totalPoolTvlUsd |-> FFromInt(in.totalPoolTvlUsd),
   priceConfidence |-> Dec(in.priceConfidence, 100),
   tickerCount     |-> in.tickerCount,
   volume24h       |-> FFromInt(in.volume24h),
   marketCap       |-> FFromInt(in.marketCap),
   high24h         |-> Dec(in.high24h, 100),
   low24h          |-> Dec(in.low24h, 100)]

Init == req = Idle /\ resp = Idle

\* the client sends a request
Request(r) ==
  /\ req = Idle /\ resp = Idle
  /\ req' = r
  /\ resp' = resp

Demand ==
  /\ req.fn = "calcDemandScore"
  /\ resp' = [fn |-> req.fn, in |-> req.in,
              out |-> calcDemandScore(DemandData(req.in))]
  /\ req' = Idle

MarketPresence ==
  /\ req.fn = "calcMarketPresenceScore"
  /\ resp' = [fn |-> req.fn, in |-> req.in,
              out |-> calcMarketPresenceScore(MarketPresenceData(req.in))]
  /\ req' = Idle

\* route.ts: the holder data fetched, and the market presence scored from it
HolderPresence ==
  LET Scored(holderData, holderDataAvailable) ==
        [holderData |-> holderData,
         holderDataAvailable |-> holderDataAvailable,
         marketPresence |->
           calcMarketPresenceScore(
             [uniqueRecipients    |-> holderData.uniqueRecipients,
              top10TransferPct    |-> holderData.top10TransferPct,
              holderDataAvailable |-> holderDataAvailable,
              tickerCount         |-> req.in.tickerCount])]
      Fetched(holderData) ==
        Scored(holderData,
               holderData.supported /\ holderData.uniqueRecipients > 0)
  IN  /\ req.fn = "fetchHolderData"
      /\ resp' = [fn |-> req.fn, in |-> req.in,
                  out |-> Fetched(fetchHolderData(req.in.outcome,
                                                  req.in.uniqueRecipients,
                                                  Dec(req.in.top10TransferPct, 100)))]
      /\ req' = Idle

Liquidity ==
  /\ req.fn = "calcLiquidityScore"
  /\ resp' = [fn |-> req.fn, in |-> req.in,
              out |-> calcLiquidityScore(LiquidityData(req.in))]
  /\ req' = Idle

\* route.ts: the bridge score of the chain's supported bridges
Bridge ==
  /\ req.fn = "bridgeScore"
  /\ resp' = [fn |-> req.fn, in |-> req.in,
              out |-> [supportedBridgeCount |-> supportedBridgeCount(req.in.chain),
                       score |-> bridgeScore(supportedBridgeCount(req.in.chain))]]
  /\ req' = Idle

\* route.ts: the bridge data fetched, and the bridge score and breakdown
FetchBridges ==
  LET Scored(bridgeData) ==
        [bridgeData |-> bridgeData,
         bridgeScore |-> bridgeScore(bridgeData.supportedBridgeCount),
         bridgeBreakdown |->
           ("Source Chain" :> req.in.chain)
             @@ ("Bridges Available" :> bridgeData.supportedBridgeCount)
             @@ ("Fastest Bridge" :>
                   IF bridgeData.fastestBridgeName # None
                     THEN bridgeData.fastestBridgeName[1] ELSE "None")
             @@ ("Fastest Finality (min)" :>
                   IF bridgeData.fastestFinalityMin # None
                     THEN bridgeData.fastestFinalityMin[1]
                     ELSE [typeof |-> "number", value |-> 0])]
  IN  /\ req.fn = "fetchBridgeData"
      /\ resp' = [fn |-> req.fn, in |-> req.in,
                  out |-> Scored(fetchBridgeData(
                            req.in.chain,
                            fetchWormholeChainData(
                              req.in.chain, req.in.outcome, req.in.governor[1],
                              req.in.governor[2], req.in.governor[3])))]
      /\ req' = Idle

\* the second analyze handler: the static bridge score of the chain
StaticBridges ==
  /\ req.fn = "calcBridgeScore"
  /\ resp' = [fn |-> req.fn, in |-> req.in, out |-> calcBridgeScore(req.in.chain)]
  /\ req' = Idle

\* clamp(30 + supportedBridgeCount * 20) for a count of supported bridges
ClampBridges ==
  /\ req.fn = "clamp"
  /\ resp' = [fn |-> req.fn, in |-> req.in,
              out |-> [score |-> bridgeScore(req.in.supportedBridgeCount)]]
  /\ req' = Idle

\* route.ts: the strategy and the overall score of one AllScores record
Analyze ==
  /\ req.fn = "recommendStrategy"
  /\ resp' = [fn |-> req.fn, in |-> req.in,
              out |-> [strategyResult |-> recommendStrategy(req.in),
                       overallScore   |-> calcOverallScore(req.in)]]
  /\ req' = Idle

Simulate ==
  /\ req.fn = "runLiquiditySim"
  /\ resp' = [fn |-> req.fn, in |-> req.in,
              out |-> runLiquiditySim(FFromInt(req.in.totalPoolTvlUsd),
                                      FFromInt(req.in.priceUsd), req.in.chain)]
  /\ req' = Idle

\* the seed a ceiling asks for, and the slippage a pool of that seed gives
\* (in an infinite pool the quotient trade / (2 * Infinity) is 0)
SeedAndBack(targetTradeUsd, lpUsd) ==
  [lpUsd |-> lpUsd,
   slippagePct |-> IF lpUsd = Infinity THEN FZero
                   ELSE calcSlippage(targetTradeUsd, lpUsd)]

RoundTrip ==
  /\ req.fn = "lpNeededForSlippage"
  /\ resp' = [fn |-> req.fn, in |-> req.in,
              out |-> SeedAndBack(FFromInt(req.in.targetTradeUsd),
                        lpNeededForSlippage(FFromInt(req.in.targetTradeUsd),
                                            Dec(req.in.maxSlippagePct, 10)))]
  /\ req' = Idle

\* what the promise of a task settles with: a value, or [threw |-> error]
Await(t, in) ==
  CASE t = "coin"      -> geckoClient(in.coin)
    [] t = "chart"     -> geckoClient(in.chart)
    [] t = "holder"    -> fetchHolderData(in.holder, 640, Dec(2550, 100))
    [] t = "liquidity" -> fetchLiquidityData(in.liquidity, 5001000, 95)
    [] t = "bridge"    ->
         fetchBridgeData(in.chain,
                         fetchWormholeChainData(in.chain, in.wormhole, 350000,
                                                50000, MaxNotionalUsd))

\* POST: the body is parsed and the address validated before any fetch
Validate ==
  /\ req.fn = "POST" /\ req.pc = "received"
  /\ IF req.in.body = "malformed"
       THEN /\ resp' = [fn |-> req.fn, in |-> req.in, settled |-> req.settled,
                        pc |-> req.pc,
                        out |-> [status |-> 400, error |-> "Invalid JSON body."]]
            /\ req' = Idle
     ELSE IF ~isValidAddress(trim(req.in.token))
       THEN /\ resp' = [fn |-> req.fn, in |-> req.in, settled |-> req.settled,
                        pc |-> req.pc,
                        out |-> [status |-> 400,
                                 error |-> "Invalid token address. Must be 0x... and 42 characters long."]]
            /\ req' = Idle
     ELSE /\ req' = [req EXCEPT !.pc = "fetching"]
          /\ resp' = resp

\* one of the five promises settles; Promise.all rejects with the first
\* rejection and the catch runs before anything else settles
Settle(t) ==
  /\ req.fn = "POST" /\ req.pc = "fetching" /\ req.rejected = None
  /\ \A i \in DOMAIN req.settled : req.settled[i] # t
  /\ req' = [req EXCEPT !.settled = Append(@, t),
                        !.rejected = IF "threw" \in DOMAIN Await(t, req.in)
                                       THEN Some(Await(t, req.in).threw)
                                       ELSE None]
  /\ resp' = resp

\* POST: the catch of the try around Promise.all
Catch ==
  /\ req.fn = "POST" /\ req.pc = "fetching" /\ req.rejected # None
  /\ resp' = [fn |-> req.fn, in |-> req.in, settled |-> req.settled,
              pc |-> req.pc, out |-> errorResponse(req.rejected[1])]
  /\ req' = Idle

\* POST: all five promises fulfilled, the scores are computed and returned
Answer ==
  LET Scored(holderData, liquidityData, bridgeData) ==
        [status |-> 200,
         holderDataAvailable |->
           holderData.supported /\ holderData.uniqueRecipients > 0,
         demand |-> calcDemandScore(DemandData(CoinSample)),
         marketPresence |->
           calcMarketPresenceScore(
             [uniqueRecipients    |-> holderData.uniqueRecipients,
              top10TransferPct    |-> holderData.top10TransferPct,
              holderDataAvailable |->
                holderData.supported /\ holderData.uniqueRecipients > 0,
              tickerCount         |-> CoinSample.tickerCount]),
         liquidity |->
           calcLiquidityScore(
             LiquidityData(
               [totalPoolTvlUsd |-> liquidityData.totalPoolTvlUsd,
                priceConfidence |-> liquidityData.priceConfidence,
                tickerCount     |-> CoinSample.tickerCount,
                volume24h       |-> CoinSample.volume24h,
                marketCap       |-> CoinSample.marketCap,
                high24h         |-> CoinSample.high24h,
                low24h          |-> CoinSample.low24h])),
         bridgeRisk |-> bridgeScore(bridgeData.supportedBridgeCount),
         bridges |-> bridgeData.bridges]
  IN  /\ req.fn = "POST" /\ req.pc = "fetching" /\ req.rejected = None
      /\ Len(req.settled) = Cardinality(Tasks)
      /\ resp' = [fn |-> req.fn, in |-> req.in, settled |-> req.settled,
                  pc |-> req.pc,
                  out |-> Scored(Await("holder", req.in),
                                 Await("liquidity", req.in),
                                 Await("bridge", req.in))]
      /\ req' = Idle

\* the exchange listings of a coin's tickers
ParseListings ==
  /\ req.fn = "parseExchangeListings"
  /\ resp' = [fn |-> req.fn, in |-> req.in,
              out |-> parseExchangeListings(req.in.tickers)]
  /\ req' = Idle

\* TokensPage: a chain button calls setActive(c.id); the effect of the new
\* render resets the state and starts a fetch, with no cleanup of the
\* earlier one
SwitchChain(c) ==
  /\ req.fn = "TokensPage"
  /\ c # req.active
  /\ req.renders < MaxRenders
  /\ req' = [req EXCEPT !.active = c, !.loading = TRUE, !.error = "",
                        !.tokens = <<>>, !.renders = @ + 1,
                        !.pending = @ \cup {[chain |-> c, render |-> req.renders + 1]}]
  /\ resp' = resp

\* TokensPage: a fetch in flight settles and its then / catch / finally run
Arrive(p, outcome) ==
  /\ req.fn = "TokensPage"
  /\ p \in req.pending
  /\ req' = [req EXCEPT
               !.pending = @ \ {p},
               !.tokens = IF outcome = "tokens"
                            THEN SubSeq(topTokens(p.chain), 1, 10) ELSE @,
               !.error = CASE outcome = "tokens"  -> @
                           [] outcome = "failed"  -> "Failed"
                           [] outcome = "network" -> "Network error",
               !.loading = FALSE]
  /\ resp' = resp

\* the client reads the response
Deliver ==
  /\ resp # Idle
  /\ resp' = Idle
  /\ req' = req

NextScoring ==
  \/ \E r \in ScoringRequests : Request(r)
  \/ Demand
  \/ MarketPresence
  \/ HolderPresence
  \/ Liquidity
  \/ Bridge
  \/ Deliver

NextStrategy ==
  \/ \E r \in StrategyRequests : Request(r)
  \/ Analyze
  \/ Deliver

NextSim ==
  \/ \E r \in SimRequests : Request(r)
  \/ Simulate
  \/ Liquidity
  \/ RoundTrip
  \/ Deliver

NextBridge ==
  \/ \E r \in BridgeRequests : Request(r)
  \/ FetchBridges
  \/ StaticBridges
  \/ ClampBridges
  \/ Deliver

NextRoute ==
  \/ \E r \in RouteRequests : Request(r)
  \/ Validate
  \/ \E t \in Tasks : Settle(t)
  \/ Catch
  \/ Answer
  \/ Deliver

NextListings ==
  \/ \E r \in Requests("parseExchangeListings", [tickers : TickerLists]) :
       Request(r)
  \/ ParseListings
  \/ Deliver

NextTokens ==
  \/ Request(TokensPage)
  \/ \E c \in Chains : SwitchChain(c)
  \/ \E p \in [chain : Chains, render : 1..MaxRenders],
         outcome \in {"tokens", "failed", "network"} : Arrive(p, outcome)

Next ==
  \/ NextScoring \/ NextStrategy \/ NextSim \/ NextBridge \/ NextRoute
  \/ NextListings \/ NextTokens

SpecScoring  == Init /\ [][NextScoring]_vars
SpecStrategy == Init /\ [][NextStrategy]_vars
SpecSim      == Init /\ [][NextSim]_vars
SpecBridge   == Init /\ [][NextBridge]_vars
SpecListings == Init /\ [][NextListings]_vars
SpecTokens   == Init /\ [][NextTokens]_vars
SpecRoute    == Init /\ [][NextRoute]_vars
Spec         == Init /\ [][Next]_vars

\* ------------------------------------------------------------------------
\* Properties of the module scorers (SpecScoring)
\* ------------------------------------------------------------------------
Scorers ==
  {"calcDemandScore", "calcMarketPresenceScore", "calcLiquidityScore",
   "bridgeScore"}

\* C1: whatever the inputs (all zero, zero market cap, absent rank, zero or
\* negative TVL, negative price changes), the score returned by
\* calcDemandScore, calcMarketPresenceScore, calcLiquidityScore and the bridge
\* score clamp(30 + 20 * supportedBridgeCount) is an integer from 0 to 100.
ScoresBounded ==
  resp.fn \in Scorers => resp.out.score \in 0..100

\* a token with no market cap, no rank and falling prices scores the 10
\* points of the absent rank; the other two sub-scores stop at their floor
ScoresBoundedWitness ==
  /\ resp.fn = "calcDemandScore"
  /\ resp.in.marketCap = 0 /\ resp.in.marketCapRank = NoRank
  /\ resp.in.priceChange7d < 0 /\ resp.in.priceChange30d < 0
  /\ resp.out.parts = <<0, 10, 0>>
  /\ resp.out.score = 10

\* C14: whenever marketCapRank is known (any numeric rank, not null) the rank
\* sub-score of calcDemandScore is clamp(30 - rank * 0.3, 0, 30); the neutral
\* 10 is used only when the rank is absent.
RankScoreOfKnownRank ==
  resp.fn = "calcDemandScore" =>
    resp.out.parts[2] =
      IF resp.in.marketCapRank = NoRank
        THEN 10
        ELSE clamp(FSub(FFromInt(30),
                        FMul(FFromInt(resp.in.marketCapRank), Dec(3, 10))),
                   0, 30)

\* Math.round(x / m) for whole x >= 0 and m > 0
RoundDiv(x, m) == (x + m \div 2) \div m

\* the same request with another volume or market cap
OtherTurnover(in) ==
  {t \in LiquidityInputs :
     /\ t # in
     /\ \A g \in DOMAIN in : g \notin {"volume24h", "marketCap"} => t[g] = in[g]}

\* C15: with totalPoolTvlUsd = 0 the TVL sub-score of calcLiquidityScore is
\* clamp((volume24h / marketCap) * 100 * 5, 0, 50), 0 when marketCap <= 0
\* (volume 1,000,000 and market cap 20,000,000 give 25); with totalPoolTvlUsd
\* > 0 the score does not depend on volume24h or marketCap.
LiquidityFallback ==
  resp.fn = "calcLiquidityScore" =>
    /\ resp.in.totalPoolTvlUsd = 0 =>
         resp.out.parts[1] =
           IF resp.in.marketCap <= 0 THEN 0
           ELSE Min2(50, RoundDiv(500 * resp.in.volume24h, resp.in.marketCap))
    /\ (/\ resp.in.totalPoolTvlUsd = 0
        /\ resp.in.volume24h = 1000000 /\ resp.in.marketCap = 20000000) =>
         resp.out.parts[1] = 25
    /\ resp.in.totalPoolTvlUsd > 0 =>
         \A t \in OtherTurnover(resp.in) :
           calcLiquidityScore(LiquidityData(t)).score = resp.out.score

\* the example of the fallback: no TVL, a turnover of 5 %
LiquidityFallbackWitness ==
  /\ resp.fn = "calcLiquidityScore"
  /\ resp.in.totalPoolTvlUsd = 0
  /\ resp.in.volume24h = 1000000 /\ resp.in.marketCap = 20000000
  /\ resp.out.parts[1] = 25

\* a pool with TVL scores the same whatever the turnover
LiquidityTurnoverIgnoredWitness ==
  /\ resp.fn = "calcLiquidityScore"
  /\ resp.in.totalPoolTvlUsd = 89125
  /\ resp.in.volume24h = 3000000 /\ resp.in.marketCap = 20000000
  /\ Cardinality(OtherTurnover(resp.in)) = 5
  /\ resp.out.parts[1] = 50

\* the requests that keep holderDataAvailable and tickerCount
OtherHolders(in) ==
  {t \in MarketPresenceInputs :
     /\ t.holderDataAvailable = in.holderDataAvailable
     /\ t.tickerCount = in.tickerCount}

\* the requests that only raise top10TransferPct
MoreConcentrated(in) ==
  {t \in OtherHolders(in) :
     /\ t.uniqueRecipients = in.uniqueRecipients
     /\ t.top10TransferPct > in.top10TransferPct}

\* C16: with holderDataAvailable false the recipient and concentration
\* sub-scores are each exactly 20 and the score of calcMarketPresenceScore
\* does not depend on uniqueRecipients and top10TransferPct; the analyze route
\* passes holderDataAvailable = false whenever the holder source is
\* unsupported, failed, or returned zero recipients; with holderDataAvailable
\* true, a higher top10TransferPct never gives a higher score.
NeutralHolderFallback ==
  /\ (resp.fn = "calcMarketPresenceScore" /\ ~resp.in.holderDataAvailable) =>
       /\ resp.out.parts[1] = 20 /\ resp.out.parts[2] = 20
       /\ \A t \in OtherHolders(resp.in) :
            calcMarketPresenceScore(MarketPresenceData(t)).score = resp.out.score
  /\ (resp.fn = "calcMarketPresenceScore" /\ resp.in.holderDataAvailable) =>
       \A t \in MoreConcentrated(resp.in) :
         calcMarketPresenceScore(MarketPresenceData(t)).score <= resp.out.score
  /\ resp.fn = "fetchHolderData" =>
       /\ (\/ resp.in.outcome \in {"unsupported", "error", "failed"}
           \/ resp.out.holderData.uniqueRecipients = 0) =>
            /\ ~resp.out.holderDataAvailable
            /\ resp.out.marketPresence.parts[1] = 20
            /\ resp.out.marketPresence.parts[2] = 20
       /\ resp.out.holderDataAvailable =>
            /\ resp.in.outcome = "data"
            /\ resp.out.holderData.uniqueRecipients > 0

\* a failed fetch of a token whose transfers would have shown 640 recipients
NeutralHolderFallbackWitness ==
  /\ resp.fn = "fetchHolderData"
  /\ resp.in.outcome = "failed" /\ resp.in.uniqueRecipients = 640
  /\ resp.out.holderData.supported
  /\ ~resp.out.holderDataAvailable
  /\ resp.out.marketPresence.parts = <<20, 20, 20>>

\* ------------------------------------------------------------------------
\* Properties of the strategy step (SpecStrategy)
\* ------------------------------------------------------------------------
Strategies == {Canonical, LpBased, Lbp, Wrapped}

\* twenty times the weighted average, in exact arithmetic:
\* 20 * (0.30 d + 0.25 m + 0.30 l + 0.15 b) = 6 d + 5 m + 6 l + 3 b
TwentyAvg(scores) ==
  6 * scores.demand + 5 * scores.marketPresence + 6 * scores.liquidity
    + 3 * scores.bridgeRisk

\* the decision tree of the specification on the weighted average
TreeOnAvg(scores) ==
  IF TwentyAvg(scores) >= 20 * 70 THEN Canonical
  ELSE IF TwentyAvg(scores) >= 20 * 55 THEN LpBased
  ELSE IF scores.liquidity < 40 THEN Lbp
  ELSE Wrapped

\* C2: recommendStrategy returns exactly one of the four strategies, the one
\* the ordered tree gives on the weighted average avg = 0.30 demand
\* + 0.25 marketPresence + 0.30 liquidity + 0.15 bridgeRisk: avg >= 70
\* Canonical, else avg >= 55 LP-Based, else liquidity < 40 LBP, else Wrapped;
\* so no input with avg >= 55 yields LBP.
StrategyFollowsTree ==
  resp.fn = "recommendStrategy" =>
    /\ resp.out.strategyResult.strategy \in Strategies
    /\ resp.out.strategyResult.strategy = TreeOnAvg(resp.in)
    /\ (TwentyAvg(resp.in) >= 20 * 55 => resp.out.strategyResult.strategy # Lbp)

ScoreFields == {"demand", "marketPresence", "liquidity", "bridgeRisk"}

\* the AllScores records that raise field f of scores and keep the rest
RaisedIn(scores, f) ==
  {t \in StrategyInputs :
     /\ t[f] > scores[f]
     /\ \A g \in DOMAIN scores : g # f => t[g] = scores[g]}

\* C3: calcOverallScore is non-decreasing in each of demand, marketPresence,
\* liquidity and bridgeRisk: raising one of them with the other three fixed
\* never lowers the overall score.
OverallScoreMonotone ==
  resp.fn = "recommendStrategy" =>
    \A f \in ScoreFields : \A t \in RaisedIn(resp.in, f) :
      calcOverallScore(t) >= resp.out.overallScore

\* an overall score that a higher demand score can still raise
OverallScoreMonotoneWitness ==
  /\ resp.fn = "recommendStrategy"
  /\ resp.in.demand = 57 /\ resp.in.marketPresence = 76
  /\ resp.in.liquidity = 38 /\ resp.in.bridgeRisk = 50
  /\ resp.out.overallScore = 55
  /\ RaisedIn(resp.in, "demand") # {}

\* the same scores with another dump risk
OtherDumpRisk(scores) ==
  {t \in StrategyInputs :
     /\ t.dumpRisk # scores.dumpRisk
     /\ \A g \in ScoreFields : t[g] = scores[g]}

\* C4: dump risk is left out of the composite: two AllScores records equal in
\* demand, marketPresence, liquidity and bridgeRisk and different in dumpRisk
\* get the same overall score and the same strategy and rationale.
DumpRiskExcluded ==
  resp.fn = "recommendStrategy" =>
    \A t \in OtherDumpRisk(resp.in) :
      /\ calcOverallScore(t) = resp.out.overallScore
      /\ recommendStrategy(t) = resp.out.strategyResult

\* a token of the highest dump risk is still recommended a canonical launch
DumpRiskExcludedWitness ==
  /\ resp.fn = "recommendStrategy"
  /\ resp.in.dumpRisk = 100
  /\ OtherDumpRisk(resp.in) # {}
  /\ resp.in.demand = 100 /\ resp.in.bridgeRisk = 90
  /\ resp.out.strategyResult.strategy = Canonical
  /\ resp.out.overallScore = 99

\* the other records with the liquidity score (and the dump risk) of scores
SameLiquidity(scores) ==
  {t \in StrategyInputs :
     /\ t # scores
     /\ t.liquidity = scores.liquidity
     /\ t.dumpRisk = scores.dumpRisk}

\* C12: the strategy depends only on the composite score and the liquidity
\* score: two AllScores records with the same calcOverallScore value and the
\* same liquidity score get the same strategy (every token whose displayed
\* overall score is 70 gets the same recommendation).
StrategyOnOverallScore ==
  resp.fn = "recommendStrategy" =>
    \A t \in SameLiquidity(resp.in) :
      calcOverallScore(t) = resp.out.overallScore =>
        recommendStrategy(t).strategy = resp.out.strategyResult.strategy

SameAvgSameStrategy(avg) ==
  \A t \in SameLiquidity(resp.in) :
    WeightedAvg(t) = avg =>
      recommendStrategy(t).strategy = resp.out.strategyResult.strategy

\* C12 as amended: two AllScores records with the same unrounded weighted
\* average (the binary64 sum recommendStrategy computes) and the same
\* liquidity score get the same strategy.
StrategyOnWeightedAvg ==
  resp.fn = "recommendStrategy" => SameAvgSameStrategy(WeightedAvg(resp.in))

\* 100, 76, 40, 50 and 70, 100, 40, 70 have the weighted average 68.5 and
\* both get LP-Based Migration
StrategyOnWeightedAvgWitness ==
  /\ resp.fn = "recommendStrategy"
  /\ resp.in.demand = 100 /\ resp.in.marketPresence = 76
  /\ resp.in.liquidity = 40 /\ resp.in.bridgeRisk = 50
  /\ resp.out.strategyResult.strategy = LpBased
  /\ \E t \in SameLiquidity(resp.in) :
       /\ t.demand = 70 /\ t.marketPresence = 100 /\ t.bridgeRisk = 70
       /\ WeightedAvg(t) = WeightedAvg(resp.in)
       /\ WeightedAvg(t) = Dec(685, 10)

\* the four weights added as doubles, in the order of the weighted sum
WeightSum ==
  FAdd(FAdd(FAdd(SCORE_WEIGHTS.demand, SCORE_WEIGHTS.marketPresence),
            SCORE_WEIGHTS.liquidity),
       SCORE_WEIGHTS.bridgeRisk)

\* C20: the four composite weights (0.30, 0.25, 0.30, 0.15) sum to exactly
\* 1.00, so for module scores in 0..100 calcOverallScore is in 0..100, and
\* when all four module scores equal the same value s it returns s.
WeightsConserved ==
  resp.fn = "recommendStrategy" =>
    /\ WeightSum = FFromInt(1)
    /\ resp.out.overallScore \in 0..100
    /\ (\A f \in ScoreFields : resp.in[f] = resp.in.demand) =>
         resp.out.overallScore = resp.in.demand

\* four scores of 57 give the overall score 57
WeightsConservedWitness ==
  /\ resp.fn = "recommendStrategy"
  /\ \A f \in ScoreFields : resp.in[f] = 57
  /\ resp.out.overallScore = 57
  /\ resp.out.strategyResult.strategy = LpBased

\* ------------------------------------------------------------------------
\* Properties of the liquidity simulation (SpecSim)
\* ------------------------------------------------------------------------
\* a double that is zero or negative
NotPositive(a) == FIsZero(a) \/ a.s < 0

\* the absence law on the tiers computed for a pool that is empty or not
TiersAbsentIff(tiers, empty) ==
  \A i \in DOMAIN tiers :
    /\ tiers[i].slippagePct = null <=> empty
    /\ tiers[i].slippagePct = null => tiers[i].riskLevel = "N/A"
    /\ ~empty => tiers[i].slippagePct.s \in {-1, 1}

\* C5: in every slippage tier of runLiquiditySim (current chain and Solana)
\* and of calcLiquidityScore, slippagePct is null if and only if the TVL the
\* projection uses is <= 0, and then riskLevel is N/A; for a TVL > 0 every
\* tier carries a number.
AbsenceLaw ==
  /\ resp.fn = "runLiquiditySim" =>
       /\ TiersAbsentIff(resp.out.currentChain.slippageTiers,
                         resp.in.totalPoolTvlUsd <= 0)
       /\ TiersAbsentIff(resp.out.solana.slippageTiers,
                         NotPositive(resp.out.solana.tvlUsd))
  /\ resp.fn = "calcLiquidityScore" =>
       TiersAbsentIff(resp.out.slippage, resp.in.totalPoolTvlUsd <= 0)

\* a token without pools: both projections answer null and N/A
AbsenceLawWitness ==
  /\ resp.fn = "runLiquiditySim"
  /\ resp.in.totalPoolTvlUsd = 0
  /\ Len(resp.out.solana.slippageTiers) = 4
  /\ \A i \in 1..4 :
       /\ resp.out.currentChain.slippageTiers[i].slippagePct = null
       /\ resp.out.solana.slippageTiers[i].riskLevel = "N/A"

\* the risk level the thresholds give the slippage a tier reports
RiskOfReported(slippagePct) ==
  IF slippagePct = null THEN "N/A"
  ELSE IF FLt(slippagePct, Dec(1, 10)) THEN "Low"
  ELSE IF FLt(slippagePct, FFromInt(1)) THEN "Moderate"
  ELSE IF FLt(slippagePct, FFromInt(5)) THEN "High"
  ELSE "Very High"

RiskMatchesReported(tiers) ==
  \A i \in DOMAIN tiers :
    tiers[i].riskLevel = RiskOfReported(tiers[i].slippagePct)

\* C6: in every tier of buildProjection (through runLiquiditySim) and of
\* calcLiquidityScore the risk level is fixed by the slippagePct the tier
\* reports: N/A iff null, Low iff < 0.1, Moderate iff 0.1 <= . < 1, High iff
\* 1 <= . < 5, Very High iff >= 5.
RiskFollowsReportedSlippage ==
  /\ resp.fn = "runLiquiditySim" =>
       /\ RiskMatchesReported(resp.out.currentChain.slippageTiers)
       /\ RiskMatchesReported(resp.out.solana.slippageTiers)
  /\ resp.fn = "calcLiquidityScore" => RiskMatchesReported(resp.out.slippage)

\* the tiers buildProjection returns for the larger pools of the model
LargerPools(tvlUsd) ==
  {buildProjection(<<"Current">>, FFromInt(b)).slippageTiers :
     b \in {c \in SimTvls : c > tvlUsd}}

\* slippage falls (strictly or not) from tiers to the tiers of a larger pool
FallsTo(tiers, larger, strictly) ==
  \A i \in DOMAIN tiers :
    IF strictly THEN FLt(larger[i].slippagePct, tiers[i].slippagePct)
    ELSE FLe(larger[i].slippagePct, tiers[i].slippagePct)

\* slippage rises (strictly or not) from each trade size to the next
RisesWithTrade(tiers, strictly) ==
  \A i \in 1..(Len(tiers) - 1) :
    IF strictly THEN FLt(tiers[i].slippagePct, tiers[i + 1].slippagePct)
    ELSE FLe(tiers[i].slippagePct, tiers[i + 1].slippagePct)

Monotone(strictly) ==
  (resp.fn = "runLiquiditySim" /\ resp.in.totalPoolTvlUsd > 0) =>
    /\ \A larger \in LargerPools(resp.in.totalPoolTvlUsd) :
         FallsTo(resp.out.currentChain.slippageTiers, larger, strictly)
    /\ RisesWithTrade(resp.out.currentChain.slippageTiers, strictly)
    /\ RisesWithTrade(resp.out.solana.slippageTiers, strictly)

\* C7: on the tiers buildProjection returns, for a fixed trade size and pool
\* TVLs 0 < a < b the slippagePct at b is strictly smaller than at a, and
\* for a fixed TVL > 0 slippagePct strictly increases from each trade-size
\* tier to the next larger one.
SlippageStrictlyMonotone == Monotone(TRUE)

\* C7 as amended: the reported slippagePct, rounded to four decimals, never
\* rises with the TVL and never falls with the trade size.
SlippageMonotone == Monotone(FALSE)

\* a pool of $50M reports 0.001 % for a $1K trade, and so does a larger one
SlippageMonotoneWitness ==
  /\ resp.fn = "runLiquiditySim"
  /\ resp.in.totalPoolTvlUsd = 50000000
  /\ resp.out.currentChain.slippageTiers[1].slippagePct = Dec(1, 1000)
  /\ \E larger \in LargerPools(resp.in.totalPoolTvlUsd) :
       larger[1].slippagePct = Dec(1, 1000)

\* the ceiling a round-trip request asks for (it travels in tenths)
Ceiling(in) == Dec(in.maxSlippagePct, 10)

\* |a - b| <= b * 2^-51, for b > 0
WithinPrecision(a, b) ==
  FLe(FSub(a, b), [b EXCEPT !.e = @ - 51])
    /\ FLe(FSub(b, a), [b EXCEPT !.e = @ - 51])

SeedsOfOnePct ==
  resp.in.maxSlippagePct = 10 =>
    /\ resp.in.targetTradeUsd = 10000 => resp.out.lpUsd = FFromInt(500000)
    /\ resp.in.targetTradeUsd = 100000 => resp.out.lpUsd = FFromInt(5000000)

\* C8: for every target trade T > 0 and ceiling M > 0,
\* calcSlippage(T, lpNeededForSlippage(T, M)) equals M; and
\* lpNeededForSlippage(10000, 1) = 500000, lpNeededForSlippage(100000, 1)
\* = 5000000.
RoundTripExact ==
  (resp.fn = "lpNeededForSlippage" /\ resp.in.maxSlippagePct > 0) =>
    /\ resp.out.slippagePct = Ceiling(resp.in)
    /\ SeedsOfOnePct

\* C8 as amended: the slippage of the seeded pool equals M to floating
\* precision (a relative error of at most 2^-51), and the two seeds for
\* M = 1 are exactly 500000 and 5000000.
RoundTripToPrecision ==
  (resp.fn = "lpNeededForSlippage" /\ resp.in.maxSlippagePct > 0) =>
    /\ WithinPrecision(resp.out.slippagePct, Ceiling(resp.in))
    /\ SeedsOfOnePct

\* a ceiling of 0.9 % on a $1K trade comes back as 0.8999999999999999
RoundTripToPrecisionWitness ==
  /\ resp.fn = "lpNeededForSlippage"
  /\ resp.in.targetTradeUsd = 1000 /\ resp.in.maxSlippagePct = 9
  /\ FLt(resp.out.slippagePct, Ceiling(resp.in))
  /\ WithinPrecision(resp.out.slippagePct, Ceiling(resp.in))

\* a trade in a pool of the recommended size stays under 1 % and below High
UnderOnePct(tradeUsd, lpUsd) ==
  /\ FLt(calcSlippage(FFromInt(tradeUsd), FFromInt(lpUsd)), FFromInt(1))
  /\ riskLevel(calcSlippage(FFromInt(tradeUsd), FFromInt(lpUsd)))
       \notin {"High", "Very High"}

\* C9: a pool seeded with the recommended minLpUsd keeps a $10,000 trade
\* under 1 % slippage and one seeded with targetLpUsd keeps a $100,000 trade
\* under 1 %: calcSlippage(10000, minLpUsd) < 1 and
\* calcSlippage(100000, targetLpUsd) < 1, so neither trade is High or worse.
RecommendedSeedUnderOnePct ==
  resp.fn = "runLiquiditySim" =>
    /\ UnderOnePct(10000, resp.out.recommendation.minLpUsd)
    /\ UnderOnePct(100000, resp.out.recommendation.targetLpUsd)

\* 10 * a = n up to the rounding of one multiplication: |10 a - n| <= n * 2^-52
IsTenthOf(a, n) ==
  LET Close(ten, whole) ==
        IF BCmp(ten, whole) >= 0
          THEN BCmp(BShl(BSub(ten, whole), MantBits - 1), whole) <= 0
          ELSE BCmp(BShl(BSub(whole, ten), MantBits - 1), whole) <= 0
  IN  /\ a.s = 1 /\ a.e <= 0
      /\ Close(BMulSmall(a.m, 10), BShl(BFromInt(n), -a.e))

\* C10: for every source TVL >= 0, seededTvlUsd is 0 or lies in
\* [10000, 50000000]; it is 0 exactly when hasTvlData is false (source TVL
\* <= 0) and min(50000000, max(10000, 0.10 * sourceTvl)) otherwise; and
\* solana.tvlUsd equals seededTvlUsd.
SeededTvlBounds ==
  resp.fn = "runLiquiditySim" =>
    /\ \/ FIsZero(resp.out.seededTvlUsd)
       \/ /\ FGe(resp.out.seededTvlUsd, FFromInt(10000))
          /\ FLe(resp.out.seededTvlUsd, FFromInt(50000000))
    /\ FIsZero(resp.out.seededTvlUsd) <=> ~resp.out.hasTvlData
    /\ resp.out.hasTvlData <=> resp.in.totalPoolTvlUsd > 0
    /\ resp.in.totalPoolTvlUsd > 0 =>
         IF resp.in.totalPoolTvlUsd <= 100000
           THEN resp.out.seededTvlUsd = FFromInt(10000)
         ELSE IF resp.in.totalPoolTvlUsd >= 500000000
           THEN resp.out.seededTvlUsd = FFromInt(50000000)
         ELSE IsTenthOf(resp.out.seededTvlUsd, resp.in.totalPoolTvlUsd)
    /\ resp.out.solana.tvlUsd = resp.out.seededTvlUsd

\* a source pool of $123,457 seeds a Solana pool of a tenth, $12,345.70
SeededTvlBoundsWitness ==
  /\ resp.fn = "runLiquiditySim"
  /\ resp.in.totalPoolTvlUsd = 123457
  /\ resp.out.seededTvlUsd = Dec(123457, 10)
  /\ resp.out.solana.tvlUsd = Dec(123457, 10)
  /\ resp.out.hasTvlData

\* the depth d is the whole-dollar trade whose slippage against the pool is
\* pct: the slippage of d - 1 is at most pct and that of d + 1 at least pct
DepthInverts(d, tvlUsd, pct) ==
  /\ FLe(calcSlippage(FFromInt(d - 1), tvlUsd), FFromInt(pct))
  /\ FGe(calcSlippage(FFromInt(d + 1), tvlUsd), FFromInt(pct))

DepthsInvert(projection) ==
  FGt(projection.tvlUsd, FZero) =>
    /\ DepthInverts(projection.depth1PctUsd, projection.tvlUsd, 1)
    /\ DepthInverts(projection.depth5PctUsd, projection.tvlUsd, 5)

\* C11: for every pool TVL > 0, depth1PctUsd is the trade size whose
\* calcSlippage against that same TVL is 1 % and depth5PctUsd the trade size
\* whose calcSlippage is 5 %, up to the integer rounding of the depth.
DepthsInvertSlippage ==
  resp.fn = "runLiquiditySim" =>
    /\ DepthsInvert(resp.out.currentChain)
    /\ DepthsInvert(resp.out.solana)

\* every tier of the projection is absent and both depths are 0
ProjectionAbsent(projection) ==
  /\ \A i \in DOMAIN projection.slippageTiers :
       /\ projection.slippageTiers[i].slippagePct = null
       /\ projection.slippageTiers[i].riskLevel = "N/A"
  /\ Len(projection.slippageTiers) = Len(TRADE_TIERS)
  /\ projection.depth1PctUsd = 0
  /\ projection.depth5PctUsd = 0

\* C13: for source TVL = 0 (any price, any chain string, unknown chains
\* included) runLiquiditySim returns a complete result with hasTvlData false,
\* seededTvlUsd 0, every tier of both projections with slippagePct null and
\* riskLevel N/A, both depths 0 in both projections, a recommendation still
\* present, and the note saying that no TVL was found.
DegradesToAbsentData ==
  (resp.fn = "runLiquiditySim" /\ resp.in.totalPoolTvlUsd = 0) =>
    /\ DOMAIN resp.out =
         {"currentChain", "solana", "seededTvlUsd", "recommendation",
          "migrationCost", "hasTvlData", "note"}
    /\ resp.out.hasTvlData = FALSE
    /\ resp.out.seededTvlUsd = FZero
    /\ ProjectionAbsent(resp.out.currentChain)
    /\ ProjectionAbsent(resp.out.solana)
    /\ resp.out.recommendation.minLpUsd = 500000
    /\ resp.out.recommendation.targetLpUsd = 5000000
    /\ resp.out.note[1] = "No DeFiLlama TVL found. "

\* an empty pool on a chain the simulator has no bridge fee for, at price 0
DegradesToAbsentDataWitness ==
  /\ resp.fn = "runLiquiditySim"
  /\ resp.in.totalPoolTvlUsd = 0 /\ resp.in.priceUsd = 0
  /\ resp.in.chain = "avalanche"
  /\ ~resp.out.hasTvlData
  /\ resp.out.solana.slippageTiers[4].riskLevel = "N/A"
  /\ resp.out.migrationCost.bridgeFeeUsd.value = 5

\* a tier whose slippage is exactly on a boundary has the riskier level
BoundaryRiskier(pct, level) ==
  /\ pct = Dec(1, 10) => level = "Moderate"
  /\ pct = FFromInt(1) => level = "High"
  /\ pct = FFromInt(5) => level = "Very High"

BoundariesRiskier(projection) ==
  \A i \in DOMAIN projection.slippageTiers :
    BoundaryRiskier(calcSlippage(FFromInt(TRADE_TIERS[i].usd), projection.tvlUsd),
                    projection.slippageTiers[i].riskLevel)

IsNumericSum(total, fee, seed) ==
  /\ fee.typeof = "number"
  /\ total.typeof = "number"
  /\ total.value = fee.value + seed

\* C18: for every call of runLiquiditySim, recommendation.minLpUsd and
\* targetLpUsd are non-negative with targetLpUsd >= minLpUsd; they are the
\* constants 500000 and 5000000 whatever the source TVL, price and chain;
\* migrationCost.lpSeedUsd = targetLpUsd and totalEstUsd = bridgeFeeUsd
\* + lpSeedUsd.
RecommendationConstants ==
  resp.fn = "runLiquiditySim" =>
    /\ resp.out.recommendation.minLpUsd >= 0
    /\ resp.out.recommendation.targetLpUsd >= resp.out.recommendation.minLpUsd
    /\ resp.out.recommendation.minLpUsd = 500000
    /\ resp.out.recommendation.targetLpUsd = 5000000
    /\ resp.out.migrationCost.lpSeedUsd = resp.out.recommendation.targetLpUsd
    /\ IsNumericSum(resp.out.migrationCost.totalEstUsd,
                    resp.out.migrationCost.bridgeFeeUsd,
                    resp.out.migrationCost.lpSeedUsd)

\* den * a = num up to two roundings: |den * a - num| <= num * 2^-51
IsQuotient(a, num, den) ==
  LET Close(scaled, whole) ==
        IF BCmp(scaled, whole) >= 0
          THEN BCmp(BShl(BSub(scaled, whole), MantBits - 2), whole) <= 0
          ELSE BCmp(BShl(BSub(whole, scaled), MantBits - 2), whole) <= 0
  IN  /\ a.s = 1 /\ a.e <= 0
      /\ Close(BMulSmall(a.m, den), BShl(BFromInt(num), -a.e))

\* C19: lpNeededForSlippage(T, M) is +Infinity for every M <= 0 (never a
\* negative, NaN or division-by-zero result) and the finite value T * 50 / M
\* for every M > 0.
InfiniteSeedForNoCeiling ==
  resp.fn = "lpNeededForSlippage" =>
    IF resp.in.maxSlippagePct <= 0
      THEN resp.out.lpUsd = Infinity
      ELSE /\ resp.out.lpUsd # Infinity
           /\ FLt(resp.out.lpUsd, Infinity)
           /\ IsQuotient(resp.out.lpUsd, 500 * resp.in.targetTradeUsd,
                         resp.in.maxSlippagePct)

\* a ceiling of exactly 0 on a $10K trade: no division, an infinite seed
InfiniteSeedForNoCeilingWitness ==
  /\ resp.fn = "lpNeededForSlippage"
  /\ resp.in.maxSlippagePct = 0 /\ resp.in.targetTradeUsd = 10000
  /\ resp.out.lpUsd = Infinity
  /\ resp.out.slippagePct = FZero

\* ------------------------------------------------------------------------
\* Properties of the bridge step (SpecBridge)
\* ------------------------------------------------------------------------
\* 30 points and 20 for a bridge, 100 at most
ThirtyPlusTwenty(count) == IF count >= 4 THEN 100 ELSE 30 + 20 * count

NoDeeperThanSource(in, out) ==
  /\ FLe(out.seededTvlUsd, FFromInt(in.totalPoolTvlUsd))
  /\ \A i \in DOMAIN out.solana.slippageTiers :
       /\ out.solana.slippageTiers[i].tradeSizeUsd =
            out.currentChain.slippageTiers[i].tradeSizeUsd
       /\ FGe(out.solana.slippageTiers[i].slippagePct,
              out.currentChain.slippageTiers[i].slippagePct)

\* C22 as stated: whenever the source TVL is positive, seededTvlUsd does not
\* exceed it and the Solana slippage of each tier is not lower than the
\* current chain's.
SeedNeverAboveSource ==
  (resp.fn = "runLiquiditySim" /\ resp.in.totalPoolTvlUsd > 0) =>
    NoDeeperThanSource(resp.in, resp.out)

\* C22: whenever the source TVL is at least the $10,000 floor, seededTvlUsd
\* does not exceed the source TVL and the Solana projection's slippagePct at
\* each tier is not lower than the current chain's at the same tier; a
\* positive source TVL below the floor is seeded with the floor, above it.
SeedAboveSourceOnlyUnderFloor ==
  (resp.fn = "runLiquiditySim" /\ resp.in.totalPoolTvlUsd > 0) =>
    IF resp.in.totalPoolTvlUsd >= SOLANA_TVL_FLOOR_USD
      THEN NoDeeperThanSource(resp.in, resp.out)
      ELSE /\ resp.out.seededTvlUsd = FFromInt(SOLANA_TVL_FLOOR_USD)
           /\ FGt(resp.out.seededTvlUsd, FFromInt(resp.in.totalPoolTvlUsd))

\* a source pool of $10,001 seeds the floor, a shallower pool: its $1K tier
\* slips 16.6667% where the source slips 16.6653%
SeedAboveSourceOnlyUnderFloorWitness ==
  /\ resp.fn = "runLiquiditySim"
  /\ resp.in.totalPoolTvlUsd = 10001
  /\ resp.out.seededTvlUsd = FFromInt(10000)
  /\ FGt(resp.out.solana.slippageTiers[1].slippagePct,
         resp.out.currentChain.slippageTiers[1].slippagePct)


\* ------------------------------------------------------------------------
\* The final clamp of the three summing scorers
\* ------------------------------------------------------------------------
RECURSIVE SumOf(_)
SumOf(parts) ==
  IF parts = <<>> THEN 0 ELSE parts[1] + SumOf(Tail(parts))

SubScoreCaps(fn) ==
  CASE fn = "calcDemandScore"         -> <<40, 30, 30>>
    [] fn = "calcMarketPresenceScore" -> <<40, 40, 20>>
    [] fn = "calcLiquidityScore"      -> <<50, 20, 15, 15>>

SummingScorers ==
  {"calcDemandScore", "calcMarketPresenceScore", "calcLiquidityScore"}

\* C23: in calcDemandScore, calcMarketPresenceScore and calcLiquidityScore
\* every sub-score is an integer between 0 and its cap, the caps sum to 100,
\* and the returned score is exactly the sum of the sub-scores: the final
\* clamp changes nothing.
FinalClampIdle ==
  resp.fn \in SummingScorers =>
    /\ Len(resp.out.parts) = Len(SubScoreCaps(resp.fn))
    /\ SumOf(SubScoreCaps(resp.fn)) = 100
    /\ \A i \in DOMAIN resp.out.parts :
         resp.out.parts[i] \in 0..SubScoreCaps(resp.fn)[i]
    /\ resp.out.score = SumOf(resp.out.parts)

\* every sub-score of calcDemandScore at its cap: the sum is 100, the bound
\* of the final clamp
FinalClampIdleWitness ==
  /\ resp.fn = "calcDemandScore"
  /\ resp.out.parts = <<40, 30, 30>>
  /\ resp.out.score = 100


\* ------------------------------------------------------------------------
\* The reference trade sizes
\* ------------------------------------------------------------------------
SizesOf(tiers) == [i \in DOMAIN tiers |-> tiers[i].tradeSizeUsd]

LabelsOf(tiers) == [i \in DOMAIN tiers |-> tiers[i].label]

\* both projections of runLiquiditySim hold the tiers $1K, $10K, $100K, $1M
SimTiersFixed(out) ==
  \A projection \in {out.currentChain, out.solana} :
    /\ SizesOf(projection.slippageTiers) = <<1000, 10000, 100000, 1000000>>
    /\ LabelsOf(projection.slippageTiers) = <<"$1K", "$10K", "$100K", "$1M">>

\* C24 as stated: the projections hold $1K, $10K, $100K and $1M, and the
\* slippage list of calcLiquidityScore holds those four sizes and $500K.
LiquidityScoreAddsHalfMillion ==
  /\ resp.fn = "runLiquiditySim" => SimTiersFixed(resp.out)
  /\ resp.fn = "calcLiquidityScore" =>
       {resp.out.slippage[i].tradeSizeUsd : i \in DOMAIN resp.out.slippage}
         = {1000, 10000, 100000, 500000, 1000000}

\* C24: every projection built by runLiquiditySim contains exactly four
\* tiers, for $1K, $10K, $100K and $1M in that ascending order; the slippage
\* list returned by calcLiquidityScore also has exactly four entries, for
\* $10K, $100K, $500K and $1M in that order: it evaluates $500K and does not
\* evaluate $1K.
LiquidityScoreSwapsOneKForHalfMillion ==
  /\ resp.fn = "runLiquiditySim" => SimTiersFixed(resp.out)
  /\ resp.fn = "calcLiquidityScore" =>
       /\ SizesOf(resp.out.slippage) = <<10000, 100000, 500000, 1000000>>
       /\ LabelsOf(resp.out.slippage) = <<"$10K", "$100K", "$500K", "$1M">>

\* a pool of $5,001,000 scored: the third entry is the $500K trade, 4.999%
LiquidityScoreSwapsOneKForHalfMillionWitness ==
  /\ resp.fn = "calcLiquidityScore"
  /\ resp.in.totalPoolTvlUsd = 5001000
  /\ Len(resp.out.slippage) = 4
  /\ resp.out.slippage[3].tradeSizeUsd = 500000
  /\ resp.out.slippage[3].slippagePct = Dec(4999, 1000)
  /\ resp.out.slippage[1].tradeSizeUsd = 10000


\* ------------------------------------------------------------------------
\* The pool-TVL sub-score
\* ------------------------------------------------------------------------
About(points, documented) == points \in (documented - 2)..(documented + 2)

\* C25: the pool-TVL sub-score of a pool of $1M is about 30, of $10M about
\* 40, of $100M about 44, and a pool under half a billion dollars stays under
\* the 50-point cap.
TvlScoreDiminishing ==
  (resp.fn = "calcLiquidityScore" /\ resp.in.totalPoolTvlUsd > 0) =>
    /\ resp.in.totalPoolTvlUsd = 1000000 => About(resp.out.parts[1], 30)
    /\ resp.in.totalPoolTvlUsd = 10000000 => About(resp.out.parts[1], 40)
    /\ resp.in.totalPoolTvlUsd = 100000000 => About(resp.out.parts[1], 44)
    /\ resp.in.totalPoolTvlUsd < 500000000 => resp.out.parts[1] < 50


\* ------------------------------------------------------------------------
\* fetchBridgeData when the Wormhole governor fails
\* ------------------------------------------------------------------------
\* the governor answered with both entries of a chain it knows and a limit
WormholeSucceeds(in) ==
  /\ in.chain \in DOMAIN WORMHOLE_CHAIN_ID
  /\ in.outcome = "ok"
  /\ in.governor[3] # 0

\* what fetchBridgeData returns for the chain when the governor succeeds
WithWormhole(chain) ==
  fetchBridgeData(chain,
                  Some([availableNotional |-> 1, dailyLimit |-> 1,
                        maxTxSize |-> 1, capacityPct |-> 100,
                        congestion |-> "Low"]))

UnknownCapacity ==
  [availableNotionalUsd |-> None, dailyLimitUsd |-> None,
   maxSingleTxUsd |-> None, capacityPct |-> None, congestion |-> "Unknown"]

\* name is a supported bridge and no supported bridge is final sooner
IsFastest(name, bridges) ==
  \E i \in DOMAIN bridges :
    /\ bridges[i].name = name
    /\ bridges[i].supported
    /\ \A j \in DOMAIN bridges :
         (bridges[j].supported /\ j # i) =>
           bridges[j].finalityMin.value >= bridges[i].finalityMin.value

\* C26: fetchBridgeData resolves with a complete result for every outcome of
\* the two Wormhole requests and every chain; when the governor fails or the
\* chain is unknown the Wormhole entry has every capacity field null and
\* congestion "Unknown"; supportedBridgeCount, fastestBridgeName and
\* fastestFinalityMin are what they are when the governor succeeds; and
\* fastestBridgeName is a supported bridge of minimal finalityMin.
BridgesDegrade ==
  resp.fn = "fetchBridgeData" =>
    /\ DOMAIN resp.out.bridgeData =
         {"chain", "bridges", "supportedBridgeCount", "fastestBridgeName",
          "fastestFinalityMin"}
    /\ Len(resp.out.bridgeData.bridges) = 1 + Len(STATIC_BRIDGES)
    /\ resp.out.bridgeData.bridges[1].name = "Wormhole"
    /\ ~WormholeSucceeds(resp.in) =>
         resp.out.bridgeData.bridges[1].wormhole = Some(UnknownCapacity)
    /\ WormholeSucceeds(resp.in) =>
         resp.out.bridgeData.bridges[1].wormhole[1].capacityPct # None
    /\ resp.out.bridgeData.supportedBridgeCount =
         WithWormhole(resp.in.chain).supportedBridgeCount
    /\ resp.out.bridgeData.fastestBridgeName =
         WithWormhole(resp.in.chain).fastestBridgeName
    /\ resp.out.bridgeData.fastestFinalityMin =
         WithWormhole(resp.in.chain).fastestFinalityMin
    /\ resp.out.bridgeData.fastestBridgeName # None
    /\ IsFastest(resp.out.bridgeData.fastestBridgeName[1],
                 resp.out.bridgeData.bridges)

\* the availability request rejects for ethereum: the Wormhole capacity is
\* unknown, three bridges are counted and LayerZero (10 minutes) is fastest
BridgesDegradeWitness ==
  /\ resp.fn = "fetchBridgeData"
  /\ resp.in.chain = "ethereum"
  /\ resp.in.outcome = "availRejects"
  /\ resp.out.bridgeData.bridges[1].wormhole = Some(UnknownCapacity)
  /\ resp.out.bridgeData.supportedBridgeCount = 3
  /\ resp.out.bridgeData.fastestBridgeName = Some("LayerZero")
  /\ resp.out.bridgeData.fastestFinalityMin =
       Some([typeof |-> "number", value |-> 10])


\* ------------------------------------------------------------------------
\* Failure isolation in POST /api/analyze
\* ------------------------------------------------------------------------
\* the body parses and its token, trimmed, is 0x and 40 more characters
WellFormed(in) ==
  in.body = "json" /\ in.token \in {ValidToken, PaddedToken}

\* the status the route answers a failed CoinGecko call with
StatusOfFailure(outcome) ==
  CASE outcome = "NotFoundError"       -> 404
    [] outcome = "RateLimitError"      -> 429
    [] outcome = "InternalServerError" -> 503
    [] OTHER                           -> 500

\* the scores of a 200 stand on the neutral defaults of each failed upstream
NeutralDefaults(in, out) ==
  /\ in.holder # "data" =>
       /\ ~out.holderDataAvailable
       /\ SubSeq(out.marketPresence.parts, 1, 2) = <<20, 20>>
  /\ in.liquidity # "ok" =>
       SubSeq(out.liquidity.parts, 1, 2)
         = <<RoundDiv(500 * CoinSample.volume24h, CoinSample.marketCap), 0>>
  /\ in.wormhole # "ok" =>
       /\ out.bridges[1].wormhole[1].capacityPct = None
       /\ out.bridges[1].wormhole[1].congestion = "Unknown"
  /\ out.bridgeRisk = ThirtyPlusTwenty(supportedBridgeCount(in.chain))
  /\ \A score \in {out.demand.score, out.marketPresence.score,
                   out.liquidity.score, out.bridgeRisk} : score \in 0..100

ListingsOf(out) == out.dexListings \o out.cexListings

Descending(list) ==
  \A i, j \in DOMAIN list : i < j => list[i].volumeUsd >= list[j].volumeUsd

RECURSIVE TickerVolume(_)
TickerVolume(tickers) ==
  IF tickers = <<>> THEN 0 ELSE Head(tickers).usd + TickerVolume(Tail(tickers))

\* one listing for every exchange identifier of the tickers, with the highest
\* volume of the exchange, in one of the two lists, each sorted by volume
OneListingPerExchange(tickers, out) ==
  /\ \A i, j \in DOMAIN ListingsOf(out) :
       ListingsOf(out)[i].identifier = ListingsOf(out)[j].identifier => i = j
  /\ {ListingsOf(out)[i].identifier : i \in DOMAIN ListingsOf(out)}
       = {tickers[k].identifier : k \in DOMAIN tickers} \ {""}
  /\ \A i \in DOMAIN ListingsOf(out) :
       /\ \E k \in DOMAIN tickers :
            /\ tickers[k].identifier = ListingsOf(out)[i].identifier
            /\ tickers[k].usd = ListingsOf(out)[i].volumeUsd
       /\ \A k \in DOMAIN tickers :
            tickers[k].identifier = ListingsOf(out)[i].identifier =>
              tickers[k].usd <= ListingsOf(out)[i].volumeUsd
  /\ \A i \in DOMAIN out.dexListings : out.dexListings[i].type = "dex"
  /\ \A i \in DOMAIN out.cexListings : out.cexListings[i].type = "cex"
  /\ Descending(out.dexListings) /\ Descending(out.cexListings)

\* C28: parseExchangeListings keeps one listing for each exchange identifier,
\* from the ticker of the highest USD volume, in exactly one of dexListings
\* and cexListings, both sorted by volume descending, and totalVolumeUsd is
\* the sum of the USD volume of all tickers of the input.
ListingsSumAllTickers ==
  resp.fn = "parseExchangeListings" =>
    /\ OneListingPerExchange(resp.in.tickers, resp.out)
    /\ resp.out.totalVolumeUsd = TickerVolume(resp.in.tickers)


\* ------------------------------------------------------------------------
\* The Top Tokens page while the chain is switched
\* ------------------------------------------------------------------------
\* C29: whenever loading is false and no error is shown, the displayed list
\* is the response for the selected chain, and loading is not false while the
\* request for the selected chain is still pending.
TokensOfSelectedChain ==
  req.fn = "TokensPage" =>
    /\ (~req.loading /\ req.error = "") =>
         req.tokens = SubSeq(topTokens(req.active), 1, 10)
    /\ [chain |-> req.active, render |-> req.renders] \in req.pending =>
         req.loading


\* ------------------------------------------------------------------------
\* The fastest bridge of calcBridgeScore
\* ------------------------------------------------------------------------
\* C30: the bridge named under "Fastest Bridge" is a supported bridge whose
\* finalityMin is the value under "Fastest Finality (min)", the minimum among
\* the chain's supported bridges; an unknown chain gets the ethereum table.
FastestBridgeNamed ==
  resp.fn = "calcBridgeScore" =>
    /\ "breakdown" \in DOMAIN resp.out
    /\ \E i \in DOMAIN resp.out.bridges :
         /\ resp.out.bridges[i].supported
         /\ resp.out.bridges[i].name = resp.out.breakdown["Fastest Bridge"]
         /\ resp.out.bridges[i].finalityMin =
              resp.out.breakdown["Fastest Finality (min)"]
    /\ \A i \in DOMAIN resp.out.bridges :
         resp.out.bridges[i].supported =>
           resp.out.bridges[i].finalityMin >=
             resp.out.breakdown["Fastest Finality (min)"]
    /\ resp.in.chain \notin Chains =>
         resp.out.bridges = BRIDGE_DATA["ethereum"]

====
